---- MODULE Spec2Model ----
(***************************************************************************)
(* State-machine model of the Rubik cube simulator core:                   *)
(*   - CubeModel (rubik_sim/core/cube_model.py): the 54-facelet state and  *)
(*     the geometric rotation engine;                                      *)
(*   - move notation (rubik_sim/logic/moves.py);                           *)
(*   - the IDDFS solver (rubik_sim/solve/iddfs_solver.py), as a step       *)
(*     machine with an explicit stack of _dfs frames.                      *)
(* A move token is a sequence of one-character strings (<<"R","'">> is the *)
(* Python string "R'"), so that parsing is modelled by what it does.       *)
(***************************************************************************)
EXTENDS Integers, Sequences, FiniteSets, TLC

(* ------------------------------------------------------------------ *)
(* Bounds of the model                                                  *)
(* ------------------------------------------------------------------ *)

\* single moves applied to the live cube after the (optional) sequence
MaxMoves == 1

\* largest max_depth handed to iddfs_solve
MaxDepth == 2

\* the observers polls / n_applied count exactly up to this value and stay there
CountCap == 2

\* moves the window may start between two resets (undo and redo included)
MaxAnimations == 3

\* moves the window may start in a behaviour with a search
MaxLiveMoves == 2

\* the largest number of quarter turns, of either sign, handed to a rotation helper
MaxTurns == 6

(* ------------------------------------------------------------------ *)
(* CubeModel: static tables                                             *)
(* ------------------------------------------------------------------ *)

FACES == <<"U", "D", "L", "R", "F", "B">>

FaceSet == {FACES[k] : k \in 1..Len(FACES)}

COLORS_SOLVED == [U |-> "W", D |-> "Y", L |-> "O", R |-> "R", F |-> "G", B |-> "B"]

FACE_NORMAL ==
    [F |-> <<0, 0, 1>>, B |-> <<0, 0, -1>>, R |-> <<1, 0, 0>>,
     L |-> <<-1, 0, 0>>, U |-> <<0, 1, 0>>, D |-> <<0, -1, 0>>]

\* The (face, index) keys in the order of the loops `for face in FACES: for i in range(9)`
FaceletOrder == [n \in 1..54 |-> <<FACES[((n - 1) \div 9) + 1], (n - 1) % 9>>]

Facelets == {FaceletOrder[n] : n \in 1..54}

\* idx_rc returning the row for the column as well
facelet_pos_row_as_column(face, i) ==
    LET r == i \div 3
        c == i \div 3
    IN  CASE face = "F" -> <<c - 1, 1 - r, 1>>
          [] face = "B" -> <<1 - c, 1 - r, -1>>
          [] face = "R" -> <<1, 1 - r, c - 1>>
          [] face = "L" -> <<-1, 1 - r, 1 - c>>
          [] face = "U" -> <<c - 1, 1, r - 1>>
          [] face = "D" -> <<c - 1, -1, 1 - r>>

\* idx_rc and the per-face position formula of _build_facelet_maps
facelet_pos(face, i) ==
    LET r == i \div 3
        c == i % 3
    IN  CASE face = "F" -> <<c - 1, 1 - r, 1>>
          [] face = "B" -> <<1 - c, 1 - r, -1>>
          [] face = "R" -> <<1, 1 - r, c - 1>>
          [] face = "L" -> <<-1, 1 - r, 1 - c>>
          [] face = "U" -> <<c - 1, 1, r - 1>>
          [] face = "D" -> <<c - 1, -1, 1 - r>>

\* self._facelet_to_pn : (face, idx) -> (pos, normal)
facelet_to_pn ==
    [key \in Facelets |-> <<facelet_pos(key[1], key[2]), FACE_NORMAL[key[1]]>>] @@ <<>>

\* self._pn_to_facelet : (pos, normal) -> (face, idx); a dict, so a later key
\* with the same (pos, normal) would overwrite an earlier one
pn_to_facelet ==
    [pn \in {facelet_to_pn[key] : key \in Facelets} |->
        LET n == CHOOSE n \in 1..54 :
                    /\ facelet_to_pn[FaceletOrder[n]] = pn
                    /\ \A m \in (n + 1)..54 : facelet_to_pn[FaceletOrder[m]] # pn
        IN  FaceletOrder[n]] @@ <<>>

(* ------------------------------------------------------------------ *)
(* CubeModel: rotations                                                 *)
(* ------------------------------------------------------------------ *)

rot_x(v, turns) ==
    LET x == v[1]
        y == v[2]
        z == v[3]
        t == turns % 4
    IN  IF t = 0 THEN <<x, y, z>>
        ELSE IF t = 1 THEN <<x, -z, y>>
        ELSE IF t = 2 THEN <<x, -y, -z>>
        ELSE <<x, z, -y>>

rot_y(v, turns) ==
    LET x == v[1]
        y == v[2]
        z == v[3]
        t == turns % 4
    IN  IF t = 0 THEN <<x, y, z>>
        ELSE IF t = 1 THEN <<z, y, -x>>
        ELSE IF t = 2 THEN <<-x, y, -z>>
        ELSE <<-z, y, x>>

rot_z(v, turns) ==
    LET x == v[1]
        y == v[2]
        z == v[3]
        t == turns % 4
    IN  IF t = 0 THEN <<x, y, z>>
        ELSE IF t = 1 THEN <<y, -x, z>>
        ELSE IF t = 2 THEN <<-x, -y, z>>
        ELSE <<-y, x, z>>

Axes == {"x", "y", "z"}

\* the `select` test with the y coordinate tested for axis "z" as well
layer_select_wrong_coord(axis, layer_value, key) ==
    LET pos == facelet_to_pn[key][1]
    IN  \/ axis = "x" /\ pos[1] = layer_value
        \/ axis = "y" /\ pos[2] = layer_value
        \/ axis = "z" /\ pos[2] = layer_value

\* the `select` test of _rotate_layer
layer_select(axis, layer_value, key) ==
    LET pos == facelet_to_pn[key][1]
    IN  \/ axis = "x" /\ pos[1] = layer_value
        \/ axis = "y" /\ pos[2] = layer_value
        \/ axis = "z" /\ pos[3] = layer_value

\* rotate position + normal of one selected facelet: (pos2, n2)
layer_rotated(axis, t, key) ==
    LET pos == facelet_to_pn[key][1]
        n   == facelet_to_pn[key][2]
        pos2 == IF axis = "x" THEN rot_x(pos, t)
                ELSE IF axis = "y" THEN rot_y(pos, t) ELSE rot_z(pos, t)
        n2   == IF axis = "x" THEN rot_x(n, t)
                ELSE IF axis = "y" THEN rot_y(n, t) ELSE rot_z(n, t)
    IN  <<pos2, n2>>

\* the lookup of the destination, self._pn_to_facelet[(pos2, n2)]
layer_dest(axis, t, key) == pn_to_facelet[layer_rotated(axis, t, key)]

\* For each slot of `new`, the facelet of `old` whose color the loop of
\* _rotate_layer leaves in it: the last selected facelet (in loop order) whose
\* destination is the slot, or the slot itself when the loop never writes it
\* (`new` starts as a copy of the state).  Tabulated per (axis, layer, t).
layer_source ==
    [a \in Axes, lv \in -1..1, t \in 0..3 |->
        [d \in Facelets |->
            LET W == {n \in 1..54 : /\ layer_select(a, lv, FaceletOrder[n])
                                    /\ layer_dest(a, t, FaceletOrder[n]) = d}
            IN  IF W = {} THEN d
                ELSE FaceletOrder[CHOOSE n \in W : \A m \in W : m <= n]] @@ <<>>] @@ <<>>

\* _rotate_layer writing into the buffer it reads (no separate `old`)
RECURSIVE write_in_place(_, _, _, _, _)
write_in_place(cur, axis, layer_value, t, n) ==
    IF n > 54 THEN cur
    ELSE LET key == FaceletOrder[n]
             d   == layer_dest(axis, t, key)
         IN  IF layer_select(axis, layer_value, key)
             THEN write_in_place([cur EXCEPT ![d[1]][d[2]] = cur[key[1]][key[2]]],
                                 axis, layer_value, t, n + 1)
             ELSE write_in_place(cur, axis, layer_value, t, n + 1)

rotate_layer_in_place(st, axis, layer_value, turns) ==
    write_in_place(st, axis, layer_value, turns % 4, 1)

\* CubeModel._rotate_layer; st is the dict face -> list of 9 colors (indices 0..8)
rotate_layer(st, axis, layer_value, turns) ==
    LET src == layer_source[axis, layer_value, turns % 4]
    IN  [f \in FaceSet |-> [i \in 0..8 |-> st[src[<<f, i>>][1]][src[<<f, i>>][2]]]]

\* the slice letters turning the face layer of the letter they are documented
\* to follow (M as L, E as D, S as F) instead of the middle layer
base_rotation_slices_on_faces(base) ==
    CASE base = "U" -> <<"y", 1, 1>>
      [] base = "D" -> <<"y", -1, -1>>
      [] base = "R" -> <<"x", 1, -1>>
      [] base = "L" -> <<"x", -1, 1>>
      [] base = "F" -> <<"z", 1, -1>>
      [] base = "B" -> <<"z", -1, 1>>
      [] base = "M" -> <<"x", -1, 1>>
      [] base = "E" -> <<"y", -1, -1>>
      [] base = "S" -> <<"z", 1, -1>>

\* The (axis, layer_value, turns) each branch of _apply_base_move_cw hands to
\* _rotate_layer; the final `else` of the chain raises ValueError
base_rotation(base) ==
    CASE base = "U" -> <<"y", 1, 1>>
      [] base = "D" -> <<"y", -1, -1>>
      [] base = "R" -> <<"x", 1, -1>>
      [] base = "L" -> <<"x", -1, 1>>
      [] base = "F" -> <<"z", 1, -1>>
      [] base = "B" -> <<"z", -1, 1>>
      [] base = "M" -> <<"x", 0, 1>>
      [] base = "E" -> <<"y", 0, -1>>
      [] base = "S" -> <<"z", 0, -1>>

\* CubeModel._apply_base_move_cw; base is one of the nine letters (apply_move
\* has validated it before the call)
apply_base_move_cw(st, base) ==
    LET p == base_rotation(base) IN rotate_layer(st, p[1], p[2], p[3])

(* ------------------------------------------------------------------ *)
(* CubeModel: public operations                                         *)
(* ------------------------------------------------------------------ *)

\* The state built by __init__ and by reset()
solved_state == [f \in FaceSet |-> [i \in 0..8 |-> COLORS_SOLVED[f]]]

\* is_solved comparing every face with the color of face U
is_solved_one_color(st) ==
    \A k \in 1..Len(FACES) :
        ~ \E i \in 0..8 : st[FACES[k]][i] # COLORS_SOLVED["U"]

\* is_solved asking only that the nine facelets of each face are equal
is_solved_uniform(st) ==
    \A k \in 1..Len(FACES) :
        ~ \E i \in 0..8 : st[FACES[k]][i] # st[FACES[k]][0]

\* CubeModel.is_solved
is_solved(st) ==
    \A k \in 1..Len(FACES) :
        ~ \E i \in 0..8 : st[FACES[k]][i] # COLORS_SOLVED[FACES[k]]

\* CubeModel.to_hashable: tuple of six tuples of nine colors, in FACES order
to_hashable(st) == [k \in 1..Len(FACES) |-> [j \in 1..9 |-> st[FACES[k]][j - 1]]]

\* str.strip() on a token: drop leading and trailing blanks
RECURSIVE lstrip(_)
lstrip(s) == IF s # <<>> /\ Head(s) = " " THEN lstrip(Tail(s)) ELSE s

RECURSIVE rstrip(_)
rstrip(s) ==
    IF s # <<>> /\ s[Len(s)] = " " THEN rstrip(SubSeq(s, 1, Len(s) - 1)) ELSE s

strip(s) == rstrip(lstrip(s))

\* str.upper() on one character (the letters a move can start with)
upper(ch) ==
    CASE ch = "u" -> "U" [] ch = "d" -> "D" [] ch = "l" -> "L"
      [] ch = "r" -> "R" [] ch = "f" -> "F" [] ch = "b" -> "B"
      [] ch = "e" -> "E" [] ch = "m" -> "M" [] ch = "s" -> "S"
      [] OTHER -> ch

RECURSIVE repeat_base(_, _, _)
repeat_base(st, base, turns) ==
    IF turns = 0 THEN st
    ELSE repeat_base(apply_base_move_cw(st, base), base, turns - 1)

\* the suffixes "2" and "'" taken for each other
suffix_turns_swapped(suffix) ==
    IF suffix = <<"2">> THEN 3
    ELSE IF suffix = <<"'">> THEN 2
    ELSE IF suffix = <<>> THEN 1
    ELSE 0

\* The turn count apply_move derives from the suffix; 0 stands for the
\* ValueError of an unsupported suffix
suffix_turns(suffix) ==
    IF suffix = <<"2">> THEN 2
    ELSE IF suffix = <<"'">> THEN 3
    ELSE IF suffix = <<>> THEN 1
    ELSE 0

\* CubeModel.apply_move.  The result is [raised, state]: raised = TRUE stands
\* for the ValueError, which is raised before the state is touched.
apply_move(st, move) ==
    LET mv == strip(move)
    IN  IF mv = <<>> THEN [raised |-> FALSE, state |-> st]
        ELSE
          LET base   == upper(mv[1])
              suffix == IF Len(mv) > 1 THEN Tail(mv) ELSE <<>>
              turns  == suffix_turns(suffix)
          IN  IF base \notin {"U", "D", "L", "R", "F", "B", "E", "M", "S"}
              THEN [raised |-> TRUE, state |-> st]
              ELSE IF turns = 0
              THEN [raised |-> TRUE, state |-> st]
              ELSE [raised |-> FALSE, state |-> repeat_base(st, base, turns)]

\* CubeModel.apply_sequence on the tokens of seq.split(): the tokens are applied
\* one by one and the first ValueError stops the loop, earlier moves staying
RECURSIVE apply_sequence(_, _)
apply_sequence(st, toks) ==
    IF toks = <<>> THEN [raised |-> FALSE, state |-> st]
    ELSE LET r == apply_move(st, Head(toks))
         IN  IF r.raised THEN r ELSE apply_sequence(r.state, Tail(toks))

(* ------------------------------------------------------------------ *)
(* Move notation (logic/moves.py)                                       *)
(* ------------------------------------------------------------------ *)

VALID_FACES == {"U", "D", "L", "R", "F", "B"}

VALID_SUFFIX == {<<>>, <<"'">>, <<"2">>}

\* only the right typographic apostrophe is replaced
RECURSIVE replace_quotes_right_only(_)
replace_quotes_right_only(s) ==
    IF s = <<>> THEN <<>>
    ELSE <<IF Head(s) = "rsquo" THEN "'" ELSE Head(s)>>
            \o replace_quotes_right_only(Tail(s))

\* str.replace of the two typographic apostrophes (written rsquo, lsquo here)
RECURSIVE replace_quotes(_)
replace_quotes(s) ==
    IF s = <<>> THEN <<>>
    ELSE <<IF Head(s) \in {"rsquo", "lsquo"} THEN "'" ELSE Head(s)>>
            \o replace_quotes(Tail(s))

\* normalize_token.  The result is [raised, tok]: raised = TRUE is the ValueError.
normalize_token(tok0) ==
    LET tok == replace_quotes(strip(tok0))
    IN  IF tok = <<>> THEN [raised |-> FALSE, tok |-> <<>>]
        ELSE IF Len(tok) = 1 /\ tok[1] \in VALID_FACES
        THEN [raised |-> FALSE, tok |-> tok]
        ELSE
          LET base == tok[1]
              suf0 == Tail(tok)
              suf  == IF suf0 = <<"2", "'">> THEN <<"2">> ELSE suf0
          IN  IF base \notin VALID_FACES THEN [raised |-> TRUE, tok |-> <<>>]
              ELSE IF suf \notin VALID_SUFFIX THEN [raised |-> TRUE, tok |-> <<>>]
              ELSE [raised |-> FALSE, tok |-> <<base>> \o suf]

\* inverse_move.  The result is [raised, tok].
inverse_move(m0) ==
    LET n == normalize_token(m0)
        m == n.tok
    IN  IF n.raised THEN n
        ELSE IF m = <<>> THEN n
        ELSE
          LET base == m[1]
              suf  == IF Len(m) > 1 THEN Tail(m) ELSE <<>>
          IN  IF suf = <<>> THEN [raised |-> FALSE, tok |-> <<base, "'">>]
              ELSE IF suf = <<"'">> THEN [raised |-> FALSE, tok |-> <<base>>]
              ELSE IF suf = <<"2">> THEN [raised |-> FALSE, tok |-> <<base, "2">>]
              ELSE [raised |-> FALSE, tok |-> m]

\* str.split(): the maximal runs of non-blank characters of s, in order; cur
\* is the run being read
RECURSIVE split_from(_, _)
split_from(s, cur) ==
    IF s = <<>> THEN (IF cur = <<>> THEN <<>> ELSE <<cur>>)
    ELSE IF Head(s) = " "
         THEN (IF cur = <<>> THEN <<>> ELSE <<cur>>) \o split_from(Tail(s), <<>>)
         ELSE split_from(Tail(s), Append(cur, Head(s)))

split(s) == split_from(s, <<>>)

\* the loop of parse_sequence leaving out the tokens normalize_token rejects
RECURSIVE normalize_all_skipping(_, _)
normalize_all_skipping(tokens, out) ==
    IF tokens = <<>> THEN [raised |-> FALSE, toks |-> out]
    ELSE LET n == normalize_token(Head(tokens))
         IN  IF n.raised THEN normalize_all_skipping(Tail(tokens), out)
             ELSE normalize_all_skipping(Tail(tokens), Append(out, n.tok))

\* the loop of parse_sequence over tokens: out grows token by token and the
\* first ValueError of normalize_token ends the call
RECURSIVE normalize_all(_, _)
normalize_all(tokens, out) ==
    IF tokens = <<>> THEN [raised |-> FALSE, toks |-> out]
    ELSE LET n == normalize_token(Head(tokens))
         IN  IF n.raised THEN [raised |-> TRUE, toks |-> <<>>]
             ELSE normalize_all(Tail(tokens), Append(out, n.tok))

\* parse_sequence.  The result is [raised, toks].
parse_sequence(text) ==
    LET tokens == SelectSeq(split(strip(text)), LAMBDA t : strip(t) # <<>>)
    IN  normalize_all(tokens, <<>>)

(* ------------------------------------------------------------------ *)
(* Scrambler (logic/scramble.py)                                        *)
(* ------------------------------------------------------------------ *)

\* FACES of scramble.py
SCRAMBLE_FACES == <<"U", "D", "L", "R", "F", "B">>

SUFFIX == << <<>>, <<"'">>, <<"2">> >>

\* the candidates of the loop body without the test against last_face
candidates_unfiltered(last_face) == SCRAMBLE_FACES

\* candidates = [m for m in FACES if m != last_face]; last_face is "None"
\* before the first move
candidates(last_face) == SelectSeq(SCRAMBLE_FACES, LAMBDA m : m # last_face)

\* rng.choice(seq) when the generator produces r, a number below len(seq)
choice(seq, r) == seq[r + 1]

\* " ".join(seq)
RECURSIVE join(_)
join(seq) ==
    IF seq = <<>> THEN <<>>
    ELSE IF Len(seq) = 1 THEN seq[1]
    ELSE seq[1] \o <<" ">> \o join(Tail(seq))

\* The loop `for _ in range(n)` of generate_scramble from its k-th last turn
\* on: the set of ways it can run, each with the numbers the generator
\* produced (two per turn, for the face and for the suffix) and the list seq
\* it built
RECURSIVE scramble_loop(_, _, _, _)
scramble_loop(k, last_face, draws, seq) ==
    IF k <= 0 THEN {[draws |-> draws, seq |-> seq]}
    ELSE LET cand == candidates(last_face)
         IN  UNION { scramble_loop(k - 1, choice(cand, i), draws \o <<i, j>>,
                                   Append(seq, <<choice(cand, i)>> \o choice(SUFFIX, j))) :
                        i \in 0..(Len(cand) - 1), j \in 0..(Len(SUFFIX) - 1) }

\* the ways the loop can run for each n tried, from last_face = None and seq = []
scramble_runs == [n \in {-1, 0, 1, 2} |-> scramble_loop(n, "None", <<>>, <<>>)] @@ <<>>

\* generate_scramble(n, seed), given the run of its loop: [raised, text, draws];
\* raised = TRUE is the ValueError of n <= 0, raised before the generator is built
generate_scramble(n, run) ==
    IF n <= 0 THEN [raised |-> TRUE, text |-> <<>>, draws |-> <<>>]
    ELSE [raised |-> FALSE, text |-> join(run.seq), draws |-> run.draws]

(* ------------------------------------------------------------------ *)
(* IDDFS solver (solve/iddfs_solver.py): tables and helpers             *)
(* ------------------------------------------------------------------ *)

\* the list with the slice moves on M appended
MOVES_with_slices ==
    << <<"U">>, <<"U", "'">>, <<"U", "2">>,
       <<"D">>, <<"D", "'">>, <<"D", "2">>,
       <<"L">>, <<"L", "'">>, <<"L", "2">>,
       <<"R">>, <<"R", "'">>, <<"R", "2">>,
       <<"F">>, <<"F", "'">>, <<"F", "2">>,
       <<"B">>, <<"B", "'">>, <<"B", "2">>,
       <<"M">>, <<"M", "'">>, <<"M", "2">> >>

MOVES ==
    << <<"U">>, <<"U", "'">>, <<"U", "2">>,
       <<"D">>, <<"D", "'">>, <<"D", "2">>,
       <<"L">>, <<"L", "'">>, <<"L", "2">>,
       <<"R">>, <<"R", "'">>, <<"R", "2">>,
       <<"F">>, <<"F", "'">>, <<"F", "2">>,
       <<"B">>, <<"B", "'">>, <<"B", "2">> >>

\* The dict INV as its (key, value) pairs
INV ==
    << << <<"U">>, <<"U", "'">> >>, << <<"U", "'">>, <<"U">> >>, << <<"U", "2">>, <<"U", "2">> >>,
       << <<"D">>, <<"D", "'">> >>, << <<"D", "'">>, <<"D">> >>, << <<"D", "2">>, <<"D", "2">> >>,
       << <<"L">>, <<"L", "'">> >>, << <<"L", "'">>, <<"L">> >>, << <<"L", "2">>, <<"L", "2">> >>,
       << <<"R">>, <<"R", "'">> >>, << <<"R", "'">>, <<"R">> >>, << <<"R", "2">>, <<"R", "2">> >>,
       << <<"F">>, <<"F", "'">> >>, << <<"F", "'">>, <<"F">> >>, << <<"F", "2">>, <<"F", "2">> >>,
       << <<"B">>, <<"B", "'">> >>, << <<"B", "'">>, <<"B">> >>, << <<"B", "2">>, <<"B", "2">> >> >>

\* Python's None where a move token or a list of tokens is expected
None == <<"None">>

\* INV.get(m): the value stored under m, None when m is no key
INV_get(m) ==
    IF \E k \in 1..Len(INV) : INV[k][1] = m
    THEN INV[CHOOSE k \in 1..Len(INV) : INV[k][1] = m][2]
    ELSE None

\* _copy_model: a fresh CubeModel whose state is rebuilt list by list
copy_model(st) == [f \in FaceSet |-> [i \in 0..8 |-> st[f][i]]]

\* _hash
hash(st) == to_hashable(st)

\* The CubeModel objects of a run: the window's live cube, the worker's
\* self.model, the solver's start and the child of the _dfs call at hand
Objects == {"live", "worker", "start", "child"}

\* `c = model` instead of `c = CubeModel()`: the copy is the object copied
copy_model_obj_alias(obj, fresh) == obj

\* The object _copy_model returns: `c = CubeModel()` is a new object, so a
\* later write to c.state cannot reach the object copied
copy_model_obj(obj, fresh) == fresh

\* the loop body of _dfs without its two prunings
pruned_never(last_move, mv) == FALSE

\* the first pruning with its comparison inverted
pruned_inverted(last_move, mv) ==
    \/ last_move # None /\ mv[1] # last_move[1]
    \/ last_move # None /\ INV_get(last_move) = mv

\* The two prunings at the top of the loop body of _dfs
pruned(last_move, mv) ==
    \/ last_move # None /\ mv[1] = last_move[1]
    \/ last_move # None /\ INV_get(last_move) = mv

\* child = _copy_model(model); child.apply_move(mv)
child_of(st, mv) == apply_move(copy_model(st), mv).state

\* on_depth(depth_limit) called twice in an iteration
iter_notified_twice(log, d, cancelled) ==
    IF cancelled THEN log ELSE Append(Append(log, d), d)

\* on_depth(depth_limit) called before should_cancel is polled
iter_notified_before_poll(log, d, cancelled) == Append(log, d)

\* The calls of on_depth after lines 93-97 of the iteration with depth limit
\* d: the poll comes first, and on_depth(d) is reached only when it did not
\* end the call; log holds the arguments of the earlier calls
iter_notified(log, d, cancelled) == IF cancelled THEN log ELSE Append(log, d)

iter_cancelled_unchecked(p, answer) == FALSE

\* `should_cancel is not None and should_cancel()` at the top of a depth
\* iteration; answer is what the predicate answers when it is called
iter_cancelled(p, answer) == p # "none" /\ answer

\* the entry of _dfs with the depth test before the solved test
dfs_entry_depth_first(p, answer, model, remaining) ==
    IF p # "none" /\ answer THEN "none"
    ELSE IF remaining = 0 THEN "none"
    ELSE IF is_solved(model) THEN "found"
    ELSE "loop"

\* The entry of _dfs (lines 137-144): "none" for `return None`, "found" for
\* `return list(path)`, "loop" when the call goes on to its move loop
dfs_entry(p, answer, model, remaining) ==
    IF p # "none" /\ answer THEN "none"
    ELSE IF is_solved(model) THEN "found"
    ELSE IF remaining = 0 THEN "none"
    ELSE "loop"

\* the backtrack without its seen_on_path.remove(h): a set of all the states
\* the search has met
seen_remove_missing(seen, h) == seen

\* seen_on_path.remove(h) of the backtrack
seen_remove(seen, h) == seen \ {h}

\* seen_on_path.add(h)
seen_add(seen, h) == seen \cup {h}

\* path.append(mv)
path_append(p, mv) == Append(p, mv)

path_pop_missing(p) == p

\* path.pop() of the backtrack
path_pop(p) == SubSeq(p, 1, Len(p) - 1)

(* ------------------------------------------------------------------ *)
(* Inputs                                                               *)
(* ------------------------------------------------------------------ *)

Bases == {"U", "D", "L", "R", "F", "B", "E", "M", "S"}

\* the 27 valid tokens: a base letter and a suffix among none, ' and 2
Tokens == {<<b>> \o suf : b \in Bases, suf \in {<<>>, <<"'">>, <<"2">>}}

\* the texts handed to apply_sequence, as the token lists of seq.split(); one
\* of them has an invalid token after two valid ones, and L M R' turns the
\* whole cube about the X axis
Sequences ==
    { << <<"U">> >>,
      << <<"F", "2">> >>,
      << <<"R">>, <<"U", "'">> >>,
      << <<"L", "'">>, <<"R">> >>,
      << <<"M">> >>,
      << <<"B">>, <<"B">>, <<"B">> >>,
      << <<"L">>, <<"M">>, <<"R", "'">> >>,
      << <<"R">>, <<"U", "'">>, <<"Q">>, <<"F">> >>,
      << <<"R">>, <<"U">>, <<"R", "'">>, <<"U", "'">> >>,
      << <<"R">>, <<"U">>, <<"R", "'">>, <<"U", "'">>, <<"L">>, <<"D">>,
         <<"L", "'">>, <<"D", "'">>, <<"U", "2">>, <<"R", "2">> >> }

\* the texts the solver is tried on
Scrambles ==
    { << <<"U">> >>,
      << <<"F", "2">> >>,
      << <<"R">>, <<"U", "'">> >>,
      << <<"L", "'">>, <<"R">> >>,
      << <<"M">> >>,
      << <<"R">>, <<"U">>, <<"R", "'">>, <<"U", "'">> >> }

\* first characters of the raw tokens tried: the nine letters, a letter that
\* is no move and a lower-case letter
RawBases == Bases \cup {"Q", "r"}

\* what follows the first character: the three suffixes, the typographic
\* apostrophes, the suffix 2' in both spellings and three unknown suffixes
RawSuffixes ==
    { <<>>, <<"'">>, <<"2">>, <<"rsquo">>, <<"lsquo">>, <<"2", "'">>,
      <<"2", "rsquo">>, <<"3">>, <<"'", "2">>, <<"'", "'">> }

\* the raw tokens handed to normalize_token and inverse_move: every base with
\* every suffix, some of them between blanks, the empty and the blank token
RawTokens ==
    {<<b>> \o suf : b \in RawBases, suf \in RawSuffixes}
      \cup {<<" ">> \o <<b>> \o suf \o <<" ", " ">> :
                b \in {"R", "M", "Q"}, suf \in {<<>>, <<"lsquo">>, <<"2", "rsquo">>}}
      \cup {<<>>, <<" ">>}

\* the texts handed to parse_sequence, character by character
Texts ==
    { <<"R", " ", "U", "2", " ", "F", "'">>,
      <<"Q">>,
      <<>>,
      <<" ", " ">>,
      <<" ", "R", " ", " ", "U", "rsquo", " ", "D", "2", "'", " ">>,
      <<"R", " ", "U", "'", " ", "Q", " ", "F">>,
      <<"R", " ", "X", "3", " ", "Q">>,
      <<"F", "2", " ", "M", " ", "U">>,
      <<"L", "D", " ", "B">>,
      <<"B", "'", " ", "L", "lsquo", " ", "D", " ", "D">> }

\* a value of type Optional[int]: None, or the integer v
NoSeed == [is_none |-> TRUE, value |-> 0]

Seed(v) == [is_none |-> FALSE, value |-> v]

\* the integer seeds tried: the seed of the spec's example
IntSeeds == {42}

\* the values of n tried
Lengths == {-1, 0, 1, 2}

\* the calls generate_scramble(n, seed) tried: every length with an integer
\* seed, and the lengths up to one move without a seed, as the window calls it
ScrambleArgs ==
    {<<n, Seed(v)>> : n \in Lengths, v \in IntSeeds}
      \cup {<<n, NoSeed>> : n \in {-1, 0, 1}}

\* what the caller passes as should_cancel: nothing ("none"), a predicate that
\* is always true ("always"), or one that may answer anything at each poll ("any")
\* the moves a drag on a sticker can yield, of the 18 that
\* _decide_move_from_drag returns (nine letters, plain or with ')
DragTokens == { <<"U">>, <<"R", "'">>, <<"M">>, <<"E", "'">>, <<"S">> }

\* the texts typed into txt_seq
TypedTexts ==
    { <<"U", "2">>,
      <<"r">>,
      <<"L", " ", "M", "'">>,
      <<" ">> }

Predicates == {"none", "always", "any", "sticky"}

PollAnswers(p) ==
    IF p = "always" THEN {TRUE} ELSE IF p = "any" THEN {TRUE, FALSE} ELSE {FALSE}

(* ------------------------------------------------------------------ *)
(* State                                                                *)
(* ------------------------------------------------------------------ *)

VARIABLES
    state,         \* CubeModel.state of the live cube
    applied,       \* observer: the tokens applied to the live cube since __init__/reset
    n_moves,       \* observer: number of single apply_move calls since __init__/reset
    raised,        \* the last call on the live cube raised ValueError
    pc,            \* where iddfs_solve stands: idle, iter, call, loop, done
    start,         \* iddfs_solve: start = _copy_model(model)
    max_depth,     \* iddfs_solve: argument
    pred,          \* iddfs_solve: the kind of should_cancel passed
    depth_limit,   \* iddfs_solve: loop variable
    stack,         \* the active _dfs calls, outermost first
    path,          \* the list shared by all _dfs calls
    seen_on_path,  \* the set shared by all _dfs calls
    ret,           \* "pending", "none" (returned None) or "list" (returned a list)
    solution,      \* the list returned when ret = "list"
    polls,         \* observer: calls of should_cancel, counted up to CountCap
    n_applied,     \* observer: apply_move calls on cube copies, counted up to CountCap
    any_true,      \* observer: some poll of should_cancel answered true
    depth_log,     \* observer: the arguments on_depth was called with, in order
    model_obj,     \* iddfs_solve: the object passed as model ("live" or "worker")
    solve_worker,  \* MainWindow._solve_worker: none, started, running, finished
    worker_model,  \* SolveWorker.model.state
    worker_max_depth,        \* SolveWorker.max_depth
    interruption_requested,  \* QThread.isInterruptionRequested() of the worker
    emitted,       \* observer: the terminal signals the worker has emitted, in order
    inbox,         \* signals queued for the window's thread, not yet delivered
    solve_status,  \* the text of MainWindow.solve_status
    pending_solution,        \* MainWindow._pending_solution
    snapshot,      \* observer: the live cube when the worker was constructed
    call,          \* observer: the last call of a function of logic/moves.py
    drawn,         \* the numbers the generator random.Random(seed) has produced so far
    scr,           \* observer: the last call of generate_scramble
    scr_seen,      \* observer: what the first call with (n, integer seed) returned
    history,       \* MainWindow.history
    redo_stack,    \* MainWindow.redo_stack
    mode,          \* MainWindow._mode: normal, undo, redo, apply, scramble
    auto_apply,    \* MainWindow._auto_apply_when_found
    animating,     \* CubeGLWidget.animating
    anim_move,     \* CubeGLWidget.anim_move
    move_queue,    \* CubeGLWidget._move_queue
    controls,      \* what _set_controls_enabled last made of the main buttons
    btn_apply_solution,      \* btn_apply_solution.isEnabled()
    btn_cancel_solve,        \* btn_cancel_solve.isEnabled()
    slot_raised    \* observer: the last handler of the window ended with an exception

cubeObs == <<applied, n_moves, raised>>

cubeVars == <<state, cubeObs>>

solverVars ==
    <<pc, start, max_depth, pred, depth_limit, stack, path, seen_on_path,
      ret, solution, polls, n_applied, any_true, depth_log, model_obj>>

windowRest ==
    <<solve_worker, worker_max_depth, interruption_requested,
      emitted, inbox, solve_status, pending_solution, snapshot>>

windowVars == <<worker_model, windowRest>>

notationVars == <<call>>

scrambleVars == <<drawn, scr, scr_seen>>

logicVars == <<notationVars, scrambleVars>>

guiVars ==
    <<history, redo_stack, mode, auto_apply, animating, anim_move, move_queue,
      controls, btn_apply_solution, btn_cancel_solve, slot_raised>>

vars == <<cubeVars, solverVars, windowVars, logicVars, guiVars>>

count(n) == IF n < CountCap THEN n + 1 ELSE n

\* a call generate_scramble(n, seed): whether it raised ValueError, the text
\* it returned if not, and whether a call with the same n and the same
\* integer seed had returned before it
ScrambleCall(n, seed, has_raised, text, repeated) ==
    [made |-> TRUE, n |-> n, seed |-> seed, raised |-> has_raised, text |-> text,
     repeated |-> repeated]

\* generate_scramble has not been called yet
NoScrambleCall ==
    [made |-> FALSE, n |-> 0, seed |-> NoSeed, raised |-> FALSE, text |-> <<>>,
     repeated |-> FALSE]

\* no call with these arguments has returned yet
NotCalled == [called |-> FALSE, text |-> <<>>]

\* a call fn(arg) of the move notation: whether it raised ValueError, and
\* what it returned if it did not
Call(fn, arg, has_raised, out) ==
    [fn |-> fn, arg |-> arg, raised |-> has_raised, out |-> out]

\* a value of type Optional[List[str]]: None, or the list sol
NoSolution == [is_none |-> TRUE, sol |-> <<>>]

Solution(sol) == [is_none |-> FALSE, sol |-> sol]

\* what should_cancel answers when polled now; the worker passes
\* self.isInterruptionRequested
Answers ==
    IF pred = "flag" THEN {interruption_requested}
    ELSE IF pred = "sticky" THEN (IF any_true THEN {TRUE} ELSE {TRUE, FALSE})
    ELSE PollAnswers(pred)

\* the state of the object obj
deref(obj) == IF obj = "worker" THEN worker_model ELSE state

\* obj.state = value for one of the objects other code can see: a write to
\* the solver's own start or child reaches neither cube
store(obj, value) ==
    /\ state' = IF obj = "live" THEN value ELSE state
    /\ worker_model' = IF obj = "worker" THEN value ELSE worker_model

Init ==
    /\ state = solved_state
    /\ applied = <<>>
    /\ n_moves = 0
    /\ raised = FALSE
    /\ pc = "idle"
    /\ start = solved_state
    /\ max_depth = 0
    /\ pred = "none"
    /\ depth_limit = 0
    /\ stack = <<>>
    /\ path = <<>>
    /\ seen_on_path = {}
    /\ ret = "pending"
    /\ solution = <<>>
    /\ polls = 0
    /\ n_applied = 0
    /\ any_true = FALSE
    /\ depth_log = <<>>
    /\ model_obj = "live"
    /\ solve_worker = "none"
    /\ worker_model = solved_state
    /\ worker_max_depth = 0
    /\ interruption_requested = FALSE
    /\ emitted = <<>>
    /\ inbox = <<>>
    /\ solve_status = "Listo."
    /\ pending_solution = NoSolution
    /\ snapshot = solved_state
    /\ call = Call("none", <<>>, FALSE, <<>>)
    /\ drawn = [v \in IntSeeds |-> <<>>]
    /\ scr = NoScrambleCall
    /\ scr_seen = [n \in Lengths, v \in IntSeeds |-> NotCalled]
    /\ history = <<>>
    /\ redo_stack = <<>>
    /\ mode = "normal"
    /\ auto_apply = FALSE
    /\ animating = FALSE
    /\ anim_move = None
    /\ move_queue = <<>>
    /\ controls = TRUE
    /\ btn_apply_solution = FALSE
    /\ btn_cancel_solve = TRUE
    /\ slot_raised = FALSE

(* ------------------------------------------------------------------ *)
(* CubeGLWidget (render/cube_gl_widget.py): the animation of moves.     *)
(* The handlers of the widget and of the window are functions of w, the *)
(* window with its widget and its cube as one record; a handler that    *)
(* raises leaves w as it was at the raising statement, with slot_raised *)
(* set (Qt reports the exception of a slot and goes on).                *)
(* ------------------------------------------------------------------ *)

\* the window, its GL widget and the live cube as they are now
Win ==
    [state |-> state, applied |-> applied, n_moves |-> n_moves, raised |-> raised,
     history |-> history, redo_stack |-> redo_stack, mode |-> mode,
     auto_apply |-> auto_apply, pending_solution |-> pending_solution,
     solve_status |-> solve_status, solve_worker |-> solve_worker,
     interruption_requested |-> interruption_requested,
     animating |-> animating, anim_move |-> anim_move, move_queue |-> move_queue,
     controls |-> controls, btn_apply_solution |-> btn_apply_solution,
     btn_cancel_solve |-> btn_cancel_solve, slot_raised |-> FALSE]

\* the window, its widget and the live cube become w
SetWin(w) ==
    /\ state' = w.state
    /\ applied' = w.applied
    /\ n_moves' = w.n_moves
    /\ raised' = w.raised
    /\ history' = w.history
    /\ redo_stack' = w.redo_stack
    /\ mode' = w.mode
    /\ auto_apply' = w.auto_apply
    /\ pending_solution' = w.pending_solution
    /\ solve_status' = w.solve_status
    /\ solve_worker' = w.solve_worker
    /\ interruption_requested' = w.interruption_requested
    /\ animating' = w.animating
    /\ anim_move' = w.anim_move
    /\ move_queue' = w.move_queue
    /\ controls' = w.controls
    /\ btn_apply_solution' = w.btn_apply_solution
    /\ btn_cancel_solve' = w.btn_cancel_solve
    /\ slot_raised' = w.slot_raised

\* CubeGLWidget._move_to_params: (axis, layer, sign_base) of the base letter
move_to_params(move) ==
    LET base == upper(move[1])
    IN  CASE base = "U" -> <<"y", 1, 1>>
          [] base = "D" -> <<"y", -1, -1>>
          [] base = "R" -> <<"x", 1, -1>>
          [] base = "L" -> <<"x", -1, 1>>
          [] base = "F" -> <<"z", 1, -1>>
          [] base = "B" -> <<"z", -1, 1>>
          [] base = "M" -> <<"x", 0, 1>>
          [] base = "E" -> <<"y", 0, -1>>
          [] base = "S" -> <<"z", 0, -1>>

\* CubeGLWidget._parse_move_for_anim for a move it accepts: axis, layer, sign
\* and target angle in degrees
parse_move_for_anim(move) ==
    LET p == move_to_params(move)
        suffix == IF Len(move) > 1 THEN Tail(move) ELSE <<>>
    IN  [axis |-> p[1], layer |-> p[2],
         sign |-> IF suffix = <<"'">> THEN -p[3] ELSE p[3],
         target |-> IF suffix = <<"2">> THEN 180 ELSE 90]

\* math.cos and math.sin of a multiple of 90 degrees
cos_deg(a) == CASE a % 360 = 0 -> 1 [] a % 360 = 90 -> 0
                [] a % 360 = 180 -> -1 [] a % 360 = 270 -> 0
sin_deg(a) == CASE a % 360 = 0 -> 0 [] a % 360 = 90 -> 1
                [] a % 360 = 180 -> 0 [] a % 360 = 270 -> -1

\* CubeGLWidget._rot_point for an angle that is a multiple of 90 degrees
rot_point(p, axis, angle_deg) ==
    LET x == p[1]
        y == p[2]
        z == p[3]
        c == cos_deg(angle_deg)
        s == sin_deg(angle_deg)
    IN  IF axis = "x" THEN <<x, y * c - z * s, y * s + z * c>>
        ELSE IF axis = "y" THEN <<x * c + z * s, y, (-x) * s + z * c>>
        ELSE IF axis = "z" THEN <<x * c - y * s, x * s + y * c, z>>
        ELSE p

\* CubeGLWidget._is_in_anim_layer for the sticker key; _sticker_center is the
\* position the cube gives the facelet
is_in_anim_layer(axis, layer, key) ==
    LET idx == IF axis = "x" THEN 1 ELSE IF axis = "y" THEN 2 ELSE 3
    IN  facelet_pos(key[1], key[2])[idx] = layer

\* The cube as paintGL draws it in the frame where anim_angle has reached
\* anim_target, read slot by slot: every sticker of the animated layer is
\* drawn with its quad rotated by anim_sign * anim_angle, so its color shows
\* at the rotated centre on the face of the rotated normal; the others show
\* in place.
last_frame ==
    [a \in Axes, lv \in -1..1, ang \in {-180, -90, 90, 180} |->
        [d \in Facelets |->
            IF is_in_anim_layer(a, lv, d)
            THEN CHOOSE key \in Facelets :
                    /\ is_in_anim_layer(a, lv, key)
                    /\ rot_point(facelet_pos(key[1], key[2]), a, ang)
                           = facelet_pos(d[1], d[2])
                    /\ rot_point(FACE_NORMAL[key[1]], a, ang) = FACE_NORMAL[d[1]]
            ELSE d] @@ <<>>] @@ <<>>

\* the colors of the last frame of the animation of move on the state st
last_frame_state(st, move) ==
    LET p == parse_move_for_anim(move)
        src == last_frame[p.axis, p.layer, p.sign * p.target]
    IN  [f \in FaceSet |-> [i \in 0..8 |-> st[src[<<f, i>>][1]][src[<<f, i>>][2]]]]

\* _move_to_params raises KeyError for a first letter outside its table and
\* _parse_move_for_anim raises ValueError for a suffix other than none, ' and
\* 2; the axis, layer, sign and angle they return only drive the drawing
parse_move_for_anim_raises(move) ==
    \/ upper(move[1]) \notin {"U", "D", "R", "L", "F", "B", "M", "E", "S"}
    \/ (IF Len(move) > 1 THEN Tail(move) ELSE <<>>) \notin {<<>>, <<"'">>, <<"2">>}

\* CubeGLWidget.start_move_animation
start_move_animation(w, move) ==
    IF w.animating THEN [w EXCEPT !.move_queue = Append(@, move)]
    ELSE IF parse_move_for_anim_raises(move) THEN [w EXCEPT !.slot_raised = TRUE]
    ELSE [w EXCEPT !.anim_move = move, !.animating = TRUE]

\* the loop `for t in tokens: self.start_move_animation(t)`
RECURSIVE start_all(_, _)
start_all(w, tokens) ==
    IF tokens = <<>> THEN w
    ELSE LET w1 == start_move_animation(w, Head(tokens))
         IN  IF w1.slot_raised THEN w1 ELSE start_all(w1, Tail(tokens))

\* CubeGLWidget.play_sequence(seq), seq being a text
play_sequence(w, seq) ==
    start_all(w, SelectSeq([k \in 1..Len(split(seq)) |-> strip(split(seq)[k])],
                           LAMBDA t : t # <<>>))

\* CubeGLWidget.cancel_animation(clear_queue)
cancel_animation(w, clear_queue) ==
    [w EXCEPT !.animating = FALSE,
              !.anim_move = IF w.animating THEN None ELSE @,
              !.move_queue = IF clear_queue THEN <<>> ELSE @]

(* ------------------------------------------------------------------ *)
(* MainWindow (app/main_window.py): handlers as functions of w          *)
(* ------------------------------------------------------------------ *)

\* the text _on_solve_finished leaves in solve_status
on_solve_finished_status(sol) ==
    IF sol.is_none THEN "No se encontro solucion (sube depth o usa scramble corto)."
    ELSE "Solucion encontrada: N pasos."

\* MainWindow._is_gl_idle
is_gl_idle(w) == ~w.animating /\ w.move_queue = <<>>

\* MainWindow._update_solution_buttons
update_solution_buttons(w) ==
    [w EXCEPT !.btn_apply_solution =
                  IF is_solved(w.state) THEN FALSE ELSE ~w.pending_solution.is_none]

\* MainWindow._refresh_state_label (the label text is left out)
refresh_state_label(w) == update_solution_buttons(w)

\* MainWindow._set_controls_enabled
set_controls_enabled(w, enabled) ==
    [w EXCEPT !.controls = enabled,
              !.btn_apply_solution =
                  enabled /\ ~w.pending_solution.is_none /\ ~is_solved(w.state)]

\* MainWindow.on_move_applied(move)
on_move_applied(w, move) ==
    IF w.mode = "undo"
    THEN LET w1 == refresh_state_label([w EXCEPT !.mode = "normal"])
         IN  IF is_gl_idle(w1) THEN set_controls_enabled(w1, TRUE) ELSE w1
    ELSE LET w1 == [w EXCEPT !.history = Append(@, move)]
             w2 == IF w1.mode = "normal" THEN [w1 EXCEPT !.redo_stack = <<>>] ELSE w1
             w3 == refresh_state_label(w2)
             w4 == IF is_solved(w3.state)
                   THEN [w3 EXCEPT !.pending_solution = NoSolution,
                                   !.btn_apply_solution = FALSE]
                   ELSE w3
         IN  IF is_gl_idle(w4)
             THEN set_controls_enabled(
                      [w4 EXCEPT !.mode = "normal", !.solve_status = "Listo."], TRUE)
             ELSE w4

\* CubeGLWidget._finish_move_animation: the move is applied to the cube,
\* move_applied is emitted (its slot on_move_applied runs at once, in the same
\* thread) and the next queued move is started
finish_move_animation(w) ==
    LET move == w.anim_move
        r  == apply_move(w.state, move)
        w1 == [w EXCEPT !.animating = FALSE, !.anim_move = None,
                        !.state = r.state, !.raised = r.raised,
                        !.n_moves = @ + 1,
                        !.applied = IF r.raised THEN @ ELSE Append(@, move)]
        w2 == on_move_applied(w1, move)
    IN  IF r.raised THEN [w1 EXCEPT !.slot_raised = TRUE]
        ELSE IF w2.move_queue # <<>>
        THEN start_move_animation([w2 EXCEPT !.move_queue = Tail(@)], Head(w2.move_queue))
        ELSE w2

\* MainWindow.cancel_solve_search; the wait of 300 ms lets the worker go on,
\* as it does at any other moment
cancel_solve_search(w) ==
    LET w1 == [w EXCEPT !.interruption_requested =
                            IF w.solve_worker \in {"started", "running"} THEN TRUE ELSE @,
                        !.pending_solution = NoSolution,
                        !.btn_apply_solution = FALSE,
                        !.solve_status = "Busqueda cancelada.",
                        !.btn_cancel_solve = FALSE]
    IN  set_controls_enabled(w1, TRUE)

\* MainWindow.on_reset
on_reset(w) ==
    LET w1 == cancel_solve_search(cancel_animation(w, TRUE))
        w2 == [w1 EXCEPT !.state = solved_state, !.applied = <<>>, !.n_moves = 0,
                         !.raised = FALSE,
                         !.history = <<>>, !.redo_stack = <<>>,
                         !.pending_solution = NoSolution,
                         !.btn_apply_solution = FALSE]
        w3 == refresh_state_label(w2)
        w4 == update_solution_buttons([w3 EXCEPT !.solve_status = "Listo."])
    IN  [w4 EXCEPT !.pending_solution = NoSolution, !.btn_apply_solution = FALSE]

\* MainWindow.on_undo: the last move leaves the history for the redo stack
\* before inverse_move is called, which can raise ValueError
on_undo(w) ==
    IF w.animating \/ w.history = <<>> THEN w
    ELSE LET last == w.history[Len(w.history)]
             w1 == [w EXCEPT !.history = SubSeq(@, 1, Len(@) - 1),
                             !.redo_stack = Append(@, last)]
             inv == inverse_move(last)
         IN  IF inv.raised THEN [w1 EXCEPT !.slot_raised = TRUE]
             ELSE start_move_animation(
                      set_controls_enabled([w1 EXCEPT !.mode = "undo"], FALSE), inv.tok)

\* MainWindow.on_redo
on_redo(w) ==
    IF w.animating \/ w.redo_stack = <<>> THEN w
    ELSE LET mv == w.redo_stack[Len(w.redo_stack)]
             w1 == [w EXCEPT !.redo_stack = SubSeq(@, 1, Len(@) - 1), !.mode = "redo"]
         IN  start_move_animation(set_controls_enabled(w1, FALSE), mv)

\* MainWindow.on_apply_sequence, text being the content of txt_seq: the
\* exception of play_sequence is caught and shown in a message box
on_apply_sequence(w, text) ==
    LET seq == strip(text)
    IN  IF seq = <<>> THEN w
        ELSE LET w1 == cancel_animation(cancel_solve_search(w), TRUE)
                 w2 == set_controls_enabled(
                           [w1 EXCEPT !.redo_stack = <<>>, !.mode = "apply"], FALSE)
                 w3 == play_sequence(w2, seq)
             IN  IF w3.slot_raised
                 THEN set_controls_enabled([w3 EXCEPT !.slot_raised = FALSE], TRUE)
                 ELSE w3

\* MainWindow.on_scramble, scramble_seq being what generate_scramble returned
on_scramble(w, scramble_seq) ==
    IF w.animating THEN w
    ELSE LET w1 == cancel_animation(cancel_solve_search(w), TRUE)
             w2 == set_controls_enabled(
                       [w1 EXCEPT !.redo_stack = <<>>, !.mode = "scramble"], FALSE)
         IN  play_sequence(w2, scramble_seq)

\* MainWindow._start_solve_search(auto_apply); solve_worker = "started"
\* stands for the worker built and its thread started
start_solve_search(w, auto) ==
    IF w.animating THEN w
    ELSE IF w.solve_worker \in {"started", "running"} THEN w
    ELSE LET w1 == [w EXCEPT !.auto_apply = auto,
                             !.pending_solution = NoSolution,
                             !.btn_apply_solution = FALSE,
                             !.btn_cancel_solve = TRUE,
                             !.solve_status = "Buscando solucion..."]
         IN  [set_controls_enabled(w1, FALSE) EXCEPT !.solve_worker = "started"]

\* MainWindow.on_apply_solution
on_apply_solution(w) ==
    IF w.pending_solution.is_none \/ w.pending_solution.sol = <<>> THEN w
    ELSE IF w.animating THEN w
    ELSE LET w1 == set_controls_enabled(
                       [w EXCEPT !.redo_stack = <<>>, !.mode = "apply"], FALSE)
             w2 == [w1 EXCEPT !.btn_apply_solution = FALSE,
                              !.solve_status = "Aplicando solucion..."]
         IN  play_sequence(w2, join(w.pending_solution.sol))

\* MainWindow._on_solve_finished(sol)
on_solve_finished(w, sol) ==
    LET w0 == [w EXCEPT !.btn_cancel_solve = FALSE]
    IN  IF sol.is_none
        THEN set_controls_enabled(
                 [w0 EXCEPT !.solve_status = on_solve_finished_status(sol),
                            !.pending_solution = NoSolution,
                            !.btn_apply_solution = FALSE], TRUE)
        ELSE LET w1 == update_solution_buttons(
                           [w0 EXCEPT !.pending_solution = sol,
                                      !.solve_status = on_solve_finished_status(sol)])
                 w2 == [w1 EXCEPT !.btn_apply_solution = TRUE]
             IN  IF w2.auto_apply THEN on_apply_solution(w2)
                 ELSE set_controls_enabled(w2, TRUE)

\* MainWindow._on_solve_error(msg)
on_solve_error(w) ==
    set_controls_enabled(
        [w EXCEPT !.solve_status = "Error en la busqueda (revisa consola).",
                  !.btn_cancel_solve = FALSE], TRUE)

(* ------------------------------------------------------------------ *)
(* Actions on the live cube                                             *)
(* ------------------------------------------------------------------ *)

\* the tokens of toks that apply_sequence applies: those before the first one
\* that makes apply_move raise
RECURSIVE applied_prefix(_)
applied_prefix(toks) ==
    IF toks = <<>> \/ apply_move(solved_state, Head(toks)).raised THEN <<>>
    ELSE <<Head(toks)>> \o applied_prefix(Tail(toks))

\* model.apply_sequence(text) on a freshly built or reset cube
ApplySequence(toks) ==
    /\ pc = "idle"
    /\ solve_worker = "none"
    /\ applied = <<>>
    /\ LET r == apply_sequence(state, toks)
       IN  /\ state' = r.state
           /\ raised' = r.raised
           /\ applied' = applied_prefix(toks)
    /\ UNCHANGED <<guiVars, logicVars, n_moves, solverVars, windowVars>>

\* model.apply_move(tok)
ApplyMove(tok) ==
    /\ n_moves < MaxMoves
    /\ LET r == apply_move(state, tok)
       IN  /\ state' = r.state
           /\ raised' = r.raised
           /\ applied' = IF r.raised THEN applied ELSE Append(applied, tok)
    /\ n_moves' = n_moves + 1
    /\ UNCHANGED <<guiVars, logicVars, solverVars, windowVars>>

\* model.reset()
Reset ==
    /\ state' = solved_state
    /\ applied' = <<>>
    /\ n_moves' = 0
    /\ raised' = FALSE
    /\ UNCHANGED <<guiVars, logicVars, solverVars, windowVars>>

(* ------------------------------------------------------------------ *)
(* iddfs_solve / _dfs as a step machine                                 *)
(* ------------------------------------------------------------------ *)

\* A _dfs call: its arguments model (the object obj and its state),
\* remaining, last_move and its locals: idx, the position in MOVES of the loop
\* variable mv, and h, the hash of the child it is waiting for.
Frame(obj, model, remaining, last_move) ==
    [obj |-> obj, model |-> model, remaining |-> remaining,
     last_move |-> last_move, idx |-> 1, h |-> <<>>]

Top == stack[Len(stack)]

\* iddfs_solve returns None
ReturnNone ==
    /\ pc' = "done"
    /\ ret' = "none"
    /\ solution' = <<>>
    /\ stack' = <<>>

\* every caller unwinds its part of path and of the set before it passes a
\* list on
ReturnFound_unwound(ans) ==
    /\ pc' = "done"
    /\ ret' = "list"
    /\ solution' = ans
    /\ stack' = <<>>
    /\ path' = <<>>
    /\ seen_on_path' = {hash(start)}
    /\ UNCHANGED depth_limit

\* the innermost _dfs call returns a list; every caller up to iddfs_solve
\* passes it on (`return ans`, `return res`) without touching path or the set
ReturnFound(ans) ==
    /\ pc' = "done"
    /\ ret' = "list"
    /\ solution' = ans
    /\ stack' = <<>>
    /\ UNCHANGED <<path, seen_on_path, depth_limit>>

\* the innermost _dfs call returns None: its caller backtracks and goes on
\* with its loop, or, for the outermost call, iddfs_solve goes to the next depth
DfsReturnsNone ==
    /\ ret' = ret
    /\ solution' = solution
    /\ IF Len(stack) = 1
       THEN /\ stack' = <<>>
            /\ depth_limit' = depth_limit + 1
            /\ pc' = "iter"
            /\ UNCHANGED <<path, seen_on_path>>
       ELSE LET parent == stack[Len(stack) - 1]
            IN  /\ seen_on_path' = seen_remove(seen_on_path, parent.h)
                /\ path' = path_pop(path)
                /\ stack' = SubSeq(stack, 1, Len(stack) - 2)
                             \o <<[parent EXCEPT !.idx = parent.idx + 1]>>
                /\ pc' = "loop"
                /\ depth_limit' = depth_limit

\* the entry of iddfs_solve(model, max_depth, on_depth, should_cancel), model
\* being the object obj: lines 86-90
iddfs_entry(obj, md, p) ==
    /\ pc = "idle"
    /\ model_obj' = obj
    /\ max_depth' = md
    /\ pred' = p
    /\ IF is_solved(deref(obj))
       THEN /\ pc' = "done"
            /\ ret' = "list"
            /\ solution' = <<>>
            /\ UNCHANGED <<start, depth_limit, state, worker_model>>
       ELSE /\ start' = copy_model(deref(obj))
            /\ store(copy_model_obj(obj, "start"), copy_model(deref(obj)))
            /\ depth_limit' = 1
            /\ pc' = "iter"
            /\ UNCHANGED <<ret, solution>>
    /\ UNCHANGED <<guiVars, logicVars, cubeObs, stack, path, seen_on_path, polls, n_applied,
                   any_true, depth_log>>

\* iddfs_solve is called on the live cube, as the tests do
StartSolve(md, p) ==
    /\ solve_worker = "none"
    /\ iddfs_entry("live", md, p)
    /\ UNCHANGED windowRest

\* one turn of `for depth_limit in range(1, max_depth + 1)` up to the call
\* of _dfs (lines 92-109), or the `return None` after the loop (line 113)
IterStep ==
    /\ pc = "iter"
    /\ IF depth_limit > max_depth
       THEN /\ ReturnNone
            /\ UNCHANGED <<path, seen_on_path, depth_limit, polls, any_true, depth_log>>
       ELSE \E c \in Answers :
            /\ polls' = IF pred = "none" THEN polls ELSE count(polls)
            /\ any_true' = (any_true \/ c)
            /\ depth_log' = iter_notified(depth_log, depth_limit, iter_cancelled(pred, c))
            /\ IF iter_cancelled(pred, c)
               THEN /\ ReturnNone
                    /\ UNCHANGED <<path, seen_on_path, depth_limit>>
               ELSE /\ path' = <<>>
                    /\ seen_on_path' = {hash(start)}
                    /\ stack' = <<Frame(copy_model_obj(model_obj, "start"), start,
                                        depth_limit, None)>>
                    /\ pc' = "call"
                    /\ UNCHANGED <<ret, solution, depth_limit>>
    /\ UNCHANGED <<guiVars, logicVars, cubeVars, windowVars, start, max_depth, pred, n_applied, model_obj>>

\* entry of a _dfs call: lines 137-144
DfsCall ==
    /\ pc = "call"
    /\ \E c \in Answers :
            /\ polls' = IF pred = "none" THEN polls ELSE count(polls)
            /\ any_true' = (any_true \/ c)
            /\ LET e == dfs_entry(pred, c, Top.model, Top.remaining)
               IN  IF e = "none" THEN DfsReturnsNone
                   ELSE IF e = "found" THEN ReturnFound(path)
                   ELSE /\ pc' = "loop"
                        /\ UNCHANGED <<stack, path, seen_on_path, ret, solution,
                                       depth_limit>>
    /\ UNCHANGED <<guiVars, logicVars, cubeVars, windowVars, start, max_depth, pred, n_applied,
                   depth_log, model_obj>>

\* one turn of `for mv in MOVES` up to the recursive call (lines 146-173), or
\* the `return None` after the loop (line 181)
DfsLoop ==
    /\ pc = "loop"
    /\ IF Top.idx > Len(MOVES)
       THEN /\ DfsReturnsNone
            /\ UNCHANGED <<n_applied, state, worker_model>>
       ELSE LET mv == MOVES[Top.idx]
                skip == /\ stack' = [stack EXCEPT ![Len(stack)].idx = Top.idx + 1]
                        /\ UNCHANGED <<pc, path, seen_on_path>>
            IN  /\ UNCHANGED <<ret, solution, depth_limit>>
                /\ IF pruned(Top.last_move, mv)
                   THEN skip /\ UNCHANGED <<n_applied, state, worker_model>>
                   ELSE LET child_obj == copy_model_obj(Top.obj, "child")
                            child == child_of(Top.model, mv)
                            h == hash(child)
                        IN  /\ n_applied' = count(n_applied)
                            /\ store(child_obj, child)
                            /\ IF h \in seen_on_path
                               THEN skip
                               ELSE /\ path' = path_append(path, mv)
                                    /\ seen_on_path' = seen_add(seen_on_path, h)
                                    /\ stack' = [stack EXCEPT ![Len(stack)].h = h]
                                                 \o <<Frame(child_obj, child,
                                                            Top.remaining - 1, mv)>>
                                    /\ pc' = "call"
    /\ UNCHANGED <<guiVars, logicVars, cubeObs, windowRest, start, max_depth, pred, polls, any_true,
                   depth_log, model_obj>>

(* ------------------------------------------------------------------ *)
(* Calls of the move notation                                           *)
(* ------------------------------------------------------------------ *)

\* normalize_token(tok)
NormalizeToken(tok) ==
    /\ LET n == normalize_token(tok)
       IN  call' = Call("normalize_token", tok, n.raised, n.tok)
    /\ UNCHANGED <<cubeVars, solverVars, windowVars, guiVars, scrambleVars>>

\* inverse_move(m)
InverseMove(m) ==
    /\ LET n == inverse_move(m)
       IN  call' = Call("inverse_move", m, n.raised, n.tok)
    /\ UNCHANGED <<cubeVars, solverVars, windowVars, guiVars, scrambleVars>>

\* parse_sequence(text)
ParseSequence(text) ==
    /\ LET r == parse_sequence(text)
       IN  call' = Call("parse_sequence", text, r.raised, r.toks)
    /\ UNCHANGED <<cubeVars, solverVars, windowVars, guiVars, scrambleVars>>

(* ------------------------------------------------------------------ *)
(* Calls of the scrambler                                               *)
(* ------------------------------------------------------------------ *)

\* a generator kept from one call to the next: it goes on where the numbers
\* produced so far end
Random_shared(seed) == IF seed.is_none THEN 0 ELSE Len(drawn[seed.value])

\* rng = random.Random(seed): a generator of its own, which reads the numbers
\* of its seed from the first one on
Random(seed) == 0

\* Whether a generator built from seed can produce the numbers ds from
\* position pos on: the numbers of an integer seed are fixed once they have
\* been produced; Random(None) is seeded from the system and can produce anything
stream_allows(seed, pos, ds) ==
    IF seed.is_none THEN TRUE
    ELSE \A k \in 1..Len(ds) :
            pos + k <= Len(drawn[seed.value]) => ds[k] = drawn[seed.value][pos + k]

\* the numbers of seed known after the generator has produced ds from pos on
stream_after(seed, pos, ds) ==
    IF seed.is_none THEN drawn
    ELSE IF pos + Len(ds) <= Len(drawn[seed.value]) THEN drawn
    ELSE [drawn EXCEPT ![seed.value] = SubSeq(@, 1, pos) \o ds]

\* generate_scramble(n, seed)
GenerateScramble(n, seed) ==
    /\ \E run \in scramble_runs[n] :
          LET r == generate_scramble(n, run)
              pos == Random(seed)
              first == ~seed.is_none /\ ~r.raised /\ ~scr_seen[n, seed.value].called
              again == ~seed.is_none /\ ~r.raised /\ scr_seen[n, seed.value].called
          IN  /\ stream_allows(seed, pos, r.draws)
              /\ drawn' = stream_after(seed, pos, r.draws)
              /\ scr' = ScrambleCall(n, seed, r.raised, r.text, again)
              /\ scr_seen' = IF first
                             THEN [scr_seen EXCEPT ![n, seed.value] =
                                      [called |-> TRUE, text |-> r.text]]
                             ELSE scr_seen
    /\ UNCHANGED <<cubeVars, solverVars, windowVars, guiVars, notationVars>>

(* ------------------------------------------------------------------ *)
(* SolveWorker (app/solve_worker.py) and the window's solver handlers   *)
(* (app/main_window.py).  The worker runs iddfs_solve in its own        *)
(* thread; its signals reach the window's thread through a queue.       *)
(* ------------------------------------------------------------------ *)

\* `self.model = model`: the worker keeps the window's cube itself
worker_obj_alias == "live"

\* `self.model = CubeModel()` in SolveWorker.__init__: an object of its own
worker_obj == "worker"

\* the copy SolveWorker.__init__ stores in self.model.state
worker_state_copy(st) == [f \in FaceSet |-> [i \in 0..8 |-> st[f][i]]]

\* a signal of the worker; the traceback text of `error` is left out
Signal(sig, arg) == [sig |-> sig, arg |-> arg]

\* the `except` clause reporting a failure as a search without result
run_signal_as_result(failed, sol) ==
    IF failed THEN Signal("finished_solution", NoSolution)
    ELSE Signal("finished_solution", sol)

\* The signal SolveWorker.run emits last: finished_solution(sol) when
\* iddfs_solve returned sol, error(traceback) when it raised an Exception
run_signal(failed, sol) ==
    IF failed THEN Signal("error", NoSolution)
    ELSE Signal("finished_solution", sol)

\* _start_solve_search(auto_apply) with the depth spin box at depth, run from
\* an enabled button while no animation runs: the worker is built on the live
\* cube and its thread started.  One worker is built per behaviour.
StartSearch(depth, auto) ==
    /\ controls
    /\ ~animating
    /\ solve_worker = "none"
    /\ pc = "idle"
    /\ SetWin(start_solve_search(Win, auto))
    /\ store(worker_obj, worker_state_copy(state))
    /\ worker_max_depth' = depth
    /\ snapshot' = state
    /\ UNCHANGED <<solverVars, emitted, inbox, logicVars>>

\* on_find_solution: _start_solve_search(auto_apply = False)
StartSolveSearch(depth) == StartSearch(depth, FALSE)

\* on_solve: _start_solve_search(auto_apply = True)
SolveButton(depth) == StartSearch(depth, TRUE)

\* the worker's thread enters run(): the call of iddfs_solve on self.model
WorkerRun ==
    /\ solve_worker = "started"
    /\ solve_worker' = "running"
    /\ iddfs_entry(worker_obj, worker_max_depth, "flag")
    /\ UNCHANGED <<worker_max_depth, interruption_requested, emitted, inbox,
                   solve_status, pending_solution, snapshot>>

\* a statement of the search raises an Exception (MemoryError, an error in a
\* callback): the call stack unwinds up to the try of run()
SearchRaises ==
    /\ solve_worker = "running"
    /\ pc \in {"iter", "call", "loop"}
    /\ pc' = "raised"
    /\ stack' = <<>>
    /\ UNCHANGED <<guiVars, logicVars, cubeVars, windowVars, start, max_depth, pred, depth_limit, path,
                   seen_on_path, ret, solution, polls, n_applied, any_true,
                   depth_log, model_obj>>

\* the end of SolveWorker.run: the terminal signal is emitted and queued for
\* the window, and the thread finishes
WorkerEmit ==
    /\ solve_worker = "running"
    /\ pc \in {"done", "raised"}
    /\ LET sol == IF ret = "list" THEN Solution(solution) ELSE NoSolution
           sig == run_signal(pc = "raised", sol)
       IN  /\ emitted' = Append(emitted, sig)
           /\ inbox' = Append(inbox, sig)
    /\ solve_worker' = "finished"
    /\ UNCHANGED <<guiVars, logicVars, cubeVars, solverVars, worker_model, worker_max_depth,
                   interruption_requested, solve_status, pending_solution, snapshot>>

\* MainWindow._on_solve_finished(sol), run when the queued signal is delivered
OnSolveFinished ==
    /\ inbox # <<>>
    /\ Head(inbox).sig = "finished_solution"
    /\ SetWin(on_solve_finished(Win, Head(inbox).arg))
    /\ inbox' = Tail(inbox)
    /\ UNCHANGED <<solverVars, worker_model, worker_max_depth, emitted, snapshot, logicVars>>

\* MainWindow._on_solve_error(msg), run when the queued signal is delivered
OnSolveError ==
    /\ inbox # <<>>
    /\ Head(inbox).sig = "error"
    /\ SetWin(on_solve_error(Win))
    /\ inbox' = Tail(inbox)
    /\ UNCHANGED <<solverVars, worker_model, worker_max_depth, emitted, snapshot, logicVars>>

\* btn_cancel_solve clicked once a worker has been built: cancel_solve_search
CancelSolveSearch ==
    /\ btn_cancel_solve
    /\ solve_worker # "none"
    /\ SetWin(cancel_solve_search(Win))
    /\ UNCHANGED <<solverVars, worker_model, worker_max_depth, emitted, inbox, snapshot,
                   logicVars>>

(* ------------------------------------------------------------------ *)
(* Events of the window: each runs one handler to its end               *)
(* ------------------------------------------------------------------ *)

\* what no handler of the window's thread touches
workerSide ==
    <<solverVars, worker_model, worker_max_depth, emitted, inbox, snapshot, logicVars>>

\* the moves applied since the last reset plus those started or queued
started == n_moves + Len(move_queue) + (IF animating THEN 1 ELSE 0)

\* mouseMoveEvent with a left drag that _decide_move_from_drag reads as tok
Drag(tok) ==
    /\ ~animating
    /\ started < MaxAnimations
    /\ SetWin(start_move_animation(Win, tok))
    /\ UNCHANGED workerSide

\* the tick of the animation timer that reaches the target angle
FinishAnimation ==
    /\ animating
    /\ SetWin(finish_move_animation(Win))
    /\ UNCHANGED workerSide

\* btn_undo clicked (or Ctrl+Z); a disabled button takes no click
Undo ==
    /\ controls
    /\ started < MaxAnimations
    /\ SetWin(on_undo(Win))
    /\ UNCHANGED workerSide

\* btn_redo clicked (or Ctrl+Y)
Redo ==
    /\ controls
    /\ started < MaxAnimations
    /\ SetWin(on_redo(Win))
    /\ UNCHANGED workerSide

\* btn_reset clicked (or Ctrl+R)
ResetButton ==
    /\ controls
    /\ SetWin(on_reset(Win))
    /\ UNCHANGED workerSide

\* btn_apply clicked with text in txt_seq
ApplyText(text) ==
    /\ controls
    /\ started < MaxAnimations
    /\ SetWin(on_apply_sequence(Win, text))
    /\ UNCHANGED workerSide

\* btn_scramble clicked, generate_scramble(n) returning text
ScrambleButton(text) ==
    /\ controls
    /\ started < MaxAnimations
    /\ SetWin(on_scramble(Win, text))
    /\ UNCHANGED workerSide

\* btn_apply_solution clicked
ApplySolution ==
    /\ btn_apply_solution
    /\ started < MaxAnimations
    /\ SetWin(on_apply_solution(Win))
    /\ UNCHANGED workerSide

(* ------------------------------------------------------------------ *)
(* Specifications                                                       *)
(* ------------------------------------------------------------------ *)

\* the live cube alone: a sequence, single moves, reset
NextCube ==
    \/ \E toks \in Sequences : ApplySequence(toks)
    \/ \E tok \in Tokens : ApplyMove(tok)
    \/ Reset

SpecCube == Init /\ [][NextCube]_vars

\* a sequence applied to a fresh cube, then one call of iddfs_solve on it
Next ==
    \/ \E toks \in Scrambles : ApplySequence(toks)
    \/ \E md \in -1..MaxDepth, p \in Predicates : StartSolve(md, p)
    \/ IterStep
    \/ DfsCall
    \/ DfsLoop

Spec == Init /\ [][Next]_vars

\* the texts applied before a search is started from the window
WorkerScrambles ==
    { << <<"U">> >>,
      << <<"R">>, <<"U", "'">> >> }

\* the values of the depth spin box tried (its range is 1..10)
WorkerDepths == {1, 2}

\* the moves made on the live cube while a search is under way
LiveTokens == { <<"U", "'">>, <<"F">> }

\* model.apply_move(tok) on the live cube once the worker has been built
LiveMove(tok) == solve_worker # "none" /\ ApplyMove(tok)

\* model.reset() on the live cube once the worker has been built
LiveReset == solve_worker # "none" /\ Reset

\* the window: a text applied to the fresh cube, a search started on it, and,
\* at any moment of the search, moves or a reset of the live cube and the
\* cancel button
NextWorker ==
    \/ \E toks \in WorkerScrambles : ApplySequence(toks)
    \/ \E depth \in WorkerDepths : StartSolveSearch(depth)
    \/ WorkerRun
    \/ IterStep
    \/ DfsCall
    \/ DfsLoop
    \/ SearchRaises
    \/ WorkerEmit
    \/ OnSolveFinished
    \/ OnSolveError
    \/ CancelSolveSearch
    \/ \E tok \in LiveTokens : LiveMove(tok)
    \/ LiveReset

SpecWorker == Init /\ [][NextWorker]_vars

\* the window without a search: drags, typed sequences, undo, redo, reset
NextHistory ==
    \/ \E tok \in DragTokens : Drag(tok)
    \/ FinishAnimation
    \/ Undo
    \/ Redo
    \/ ResetButton
    \/ \E text \in TypedTexts : ApplyText(text)

SpecHistory == Init /\ [][NextHistory]_vars

\* texts typed into txt_seq with a token the widget rejects: after a valid
\* one, between two valid ones, and alone
QueuedTexts ==
    { <<"U", " ", "Q">>,
      <<"R", " ", "Q", " ", "F">>,
      <<"Q">>,
      <<"D", " ", "L", "'">> }

\* the moves of the drags
QueuedDrags == { <<"U">>, <<"M">> }

\* a scramble generate_scramble(1) can return
QueuedScrambles ==
    { generate_scramble(1, run).text : run \in scramble_runs[1] } \cap { <<"D">> }

\* the window and its widget, with texts the widget rejects
NextQueue ==
    \/ \E tok \in QueuedDrags : Drag(tok)
    \/ FinishAnimation
    \/ Undo
    \/ Redo
    \/ ResetButton
    \/ \E text \in QueuedTexts : ApplyText(text)
    \/ \E text \in QueuedScrambles : ScrambleButton(text)

\* QTimer keeps calling _on_anim_tick while an animation runs, so the tick
\* that reaches the target angle comes: weak fairness of FinishAnimation,
\* written out with `animating` for ENABLED <<FinishAnimation>>_vars
TimerFair == []<>(~animating) \/ []<><<FinishAnimation>>_vars

SpecQueue == Init /\ [][NextQueue]_vars /\ TimerFair

\* the drags, the typed texts, the scrambles (of those generate_scramble(1)
\* can return) and the depths tried next to a search
WindowDrags == { <<"U">>, <<"F", "'">> }

WindowTexts == { <<"R">> }

WindowScrambles ==
    { generate_scramble(1, run).text : run \in scramble_runs[1] } \cap { <<"D">>, <<"L", "2">> }

WindowDepths == {1}

\* a drag in a behaviour with a search
LiveDrag(tok) == started < MaxLiveMoves /\ Drag(tok)

\* undo, a typed sequence and a scramble once the worker has been built
LiveUndo == solve_worker # "none" /\ started < MaxLiveMoves /\ Undo

LiveApplyText(text) == solve_worker # "none" /\ started < MaxLiveMoves /\ ApplyText(text)

LiveScramble(text) == solve_worker # "none" /\ started < MaxLiveMoves /\ ScrambleButton(text)

\* reset while a signal of the worker waits for its delivery
ResetOnResult == inbox # <<>> /\ ResetButton

\* the window with its worker: drags, a search started with either button,
\* the worker's thread, and the handlers that can precede or follow its result
NextWindow ==
    \/ \E tok \in WindowDrags : LiveDrag(tok)
    \/ FinishAnimation
    \/ LiveUndo
    \/ ResetOnResult
    \/ \E text \in WindowTexts : LiveApplyText(text)
    \/ \E text \in WindowScrambles : LiveScramble(text)
    \/ \E depth \in WindowDepths : StartSolveSearch(depth)
    \/ \E depth \in WindowDepths : SolveButton(depth)
    \/ WorkerRun
    \/ IterStep
    \/ DfsCall
    \/ DfsLoop
    \/ WorkerEmit
    \/ OnSolveFinished
    \/ CancelSolveSearch
    \/ ApplySolution

SpecWindow == Init /\ [][NextWindow]_vars

\* the move notation alone: its three functions called on raw tokens and texts
NextNotation ==
    \/ \E tok \in RawTokens : NormalizeToken(tok)
    \/ \E m \in RawTokens : InverseMove(m)
    \/ \E text \in Texts : ParseSequence(text)

SpecNotation == Init /\ [][NextNotation]_vars

\* the vectors with coordinates in {-1, 0, 1}
Vectors == {<<x, y, z>> : x \in -1..1, y \in -1..1, z \in -1..1}

Turns == (-MaxTurns)..MaxTurns

\* CubeModel._rot_x(v, turns), _rot_y(v, turns), _rot_z(v, turns)
RotX(v, turns) ==
    /\ call' = Call("_rot_x", <<v, turns>>, FALSE, rot_x(v, turns))
    /\ UNCHANGED <<cubeVars, solverVars, windowVars, guiVars, scrambleVars>>

RotY(v, turns) ==
    /\ call' = Call("_rot_y", <<v, turns>>, FALSE, rot_y(v, turns))
    /\ UNCHANGED <<cubeVars, solverVars, windowVars, guiVars, scrambleVars>>

RotZ(v, turns) ==
    /\ call' = Call("_rot_z", <<v, turns>>, FALSE, rot_z(v, turns))
    /\ UNCHANGED <<cubeVars, solverVars, windowVars, guiVars, scrambleVars>>

\* the rotation helpers alone
NextRotation ==
    \/ \E v \in Vectors, turns \in Turns : RotX(v, turns)
    \/ \E v \in Vectors, turns \in Turns : RotY(v, turns)
    \/ \E v \in Vectors, turns \in Turns : RotZ(v, turns)

SpecRotation == Init /\ [][NextRotation]_vars

\* the scrambler alone: calls of generate_scramble
NextScramble == \E a \in ScrambleArgs : GenerateScramble(a[1], a[2])

SpecScramble == Init /\ [][NextScramble]_vars

(* ------------------------------------------------------------------ *)
(* Properties                                                           *)
(* ------------------------------------------------------------------ *)

\* C1 (solver soundness): whenever iddfs_solve has returned a list, whatever
\* max_depth and should_cancel were, applying the list move by move to the
\* cube the solver was called on gives a cube for which is_solved() is true.
SolverSound ==
    ret = "list" =>
        LET r == apply_sequence(state, solution)
        IN  ~r.raised /\ is_solved(r.state)

\* a two-move solution has been returned for a scrambled cube
SolverSoundWitness ==
    /\ ret = "list"
    /\ Len(solution) = 2
    /\ ~is_solved(state)
    /\ is_solved(apply_sequence(state, solution).state)

\* the colors the test counts
Colors == {"W", "Y", "O", "R", "G", "B"}

\* C2 (color-count invariant): in every state of the live cube reached by
\* valid moves (the nine base letters, each suffix) each of the six colors is
\* on exactly nine of the 54 facelets.
ColorCount ==
    \A col \in Colors :
        Cardinality({key \in Facelets : state[key[1]][key[2]] = col}) = 9

\* the ten-move text of the test followed by a slice move
ColorCountWitness ==
    /\ Len(applied) = 11
    /\ applied[11][1] \in {"E", "M", "S"}
    /\ ~is_solved(state)
    /\ ~raised

\* the cube after applying the tokens toks to st
after(st, toks) == apply_sequence(st, toks).state

\* C3 (round trip): for every valid token m (nine base letters, each suffix)
\* and every reachable state, inverse_move(m) is a token and apply_move(m)
\* followed by apply_move(inverse_move(m)) restores the snapshot.
RoundTrip ==
    \A m \in Tokens :
        LET inv == inverse_move(m)
        IN  /\ ~inv.raised
            /\ to_hashable(after(state, <<m, inv.tok>>)) = to_hashable(state)

\* C4 (quarter-turn closure): for each of the nine base letters and every
\* reachable state, the unsuffixed move applied four times in a row, and the
\* "2" move applied twice, restore the snapshot.
QuarterTurnClosure ==
    \A b \in Bases :
        /\ to_hashable(after(state, <<<<b>>, <<b>>, <<b>>, <<b>>>>)) = to_hashable(state)
        /\ to_hashable(after(state, <<<<b, "2">>, <<b, "2">>>>)) = to_hashable(state)

\* B applied four times in a row on a fresh cube has restored its snapshot
QuarterTurnClosureWitness ==
    /\ applied = << <<"B">>, <<"B">>, <<"B">>, <<"B">> >>
    /\ to_hashable(state) = to_hashable(solved_state)
    /\ ~is_solved(after(solved_state, << <<"B">>, <<"B">>, <<"B">> >>))

\* C5 (double-move equivalence): for each of the nine base letters X and
\* every reachable state, apply_move("X2") gives the snapshot of apply_move("X")
\* twice, and apply_move("X'") the snapshot of apply_move("X") three times.
DoubleMove ==
    \A b \in Bases :
        /\ to_hashable(after(state, <<<<b, "2">>>>))
             = to_hashable(after(state, <<<<b>>, <<b>>>>))
        /\ to_hashable(after(state, <<<<b, "'">>>>))
             = to_hashable(after(state, <<<<b>>, <<b>>, <<b>>>>))

\* U applied twice on a fresh cube shows the snapshot of U2, which is not the
\* snapshot of U
DoubleMoveWitness ==
    /\ applied = << <<"U">>, <<"U">> >>
    /\ to_hashable(state) = to_hashable(after(solved_state, << <<"U", "2">> >>))
    /\ to_hashable(state) # to_hashable(after(solved_state, << <<"U">> >>))

\* some sequence of at most k moves of MOVES, with no restriction, solves st
RECURSIVE solvable_within(_, _)
solvable_within(st, k) ==
    \/ is_solved(st)
    \/ /\ k > 0
       /\ \E i \in 1..Len(MOVES) : solvable_within(after(st, <<MOVES[i]>>), k - 1)

\* C6 (solver completeness, the pruning is safe): if some sequence of at most
\* max_depth moves of the 18-move alphabet solves the start state, a call of
\* iddfs_solve in which no poll answered true returns a list.
SolverComplete ==
    (pc = "done" /\ ret = "none" /\ ~any_true) => ~solvable_within(state, max_depth)

\* an uncancelled search with max_depth = 2 has found a two-move solution of
\* a cube that no single move solves
SolverCompleteWitness ==
    /\ pc = "done"
    /\ ret = "list"
    /\ ~any_true
    /\ max_depth = 2
    /\ Len(solution) = 2
    /\ solvable_within(state, 2)
    /\ ~solvable_within(state, 1)

\* some sequence of at most k moves of MOVES that obeys the two pruning rules
\* (last being the move before it) solves st
RECURSIVE solvable_pruned(_, _, _)
solvable_pruned(st, k, last) ==
    \/ is_solved(st)
    \/ /\ k > 0
       /\ \E i \in 1..Len(MOVES) :
            /\ ~pruned(last, MOVES[i])
            /\ solvable_pruned(after(st, <<MOVES[i]>>), k - 1, MOVES[i])

\* C7 (minimal depth): when a call in which no poll answered true returns a
\* list found by the search, its length is the depth limit of the iteration
\* that found it, the depth limits 1, 2, ... up to it were tried in order, and
\* no shorter sequence of MOVES obeying the pruning rules solves the start state.
MinimalDepth ==
    (pc = "done" /\ ret = "list" /\ ~any_true /\ depth_log # <<>>) =>
        /\ Len(solution) = depth_limit
        /\ depth_log = [k \in 1..depth_limit |-> k]
        /\ ~solvable_pruned(state, depth_limit - 1, None)

\* a two-move solution was found in the second iteration
MinimalDepthWitness ==
    /\ pc = "done"
    /\ ret = "list"
    /\ ~any_true
    /\ depth_log = <<1, 2>>
    /\ Len(solution) = 2
    /\ solvable_pruned(state, 2, None)

\* C8 (already solved): when the cube passed to iddfs_solve is in the solved
\* state, the call returns the empty list at once, for every max_depth
\* (also max_depth <= 0) and every should_cancel, without calling on_depth or
\* should_cancel and without applying a move.
SolvedAtEntry ==
    (pc # "idle" /\ to_hashable(state) = to_hashable(solved_state)) =>
        /\ pc = "done"
        /\ ret = "list"
        /\ solution = <<>>
        /\ polls = 0
        /\ depth_log = <<>>
        /\ n_applied = 0

\* the call on a solved cube with max_depth = -1 and an always-true predicate
\* has returned the empty list
SolvedAtEntryWitness ==
    /\ pc = "done"
    /\ to_hashable(state) = to_hashable(solved_state)
    /\ max_depth = -1
    /\ pred = "always"
    /\ ret = "list"
    /\ solution = <<>>

\* C9 (cancellation before start): for an unsolved start state and every
\* max_depth, a call whose should_cancel always answers true returns None
\* after at most one poll and without applying a move to any cube copy.
CancelledBeforeStart ==
    (pc # "idle" /\ pred = "always" /\ ~is_solved(state)) =>
        /\ pc \in {"iter", "done"}
        /\ pc = "iter" => (polls = 0 /\ depth_limit = 1)
        /\ pc = "done" => ret = "none"
        /\ polls <= 1
        /\ n_applied = 0
        /\ depth_log = <<>>

\* a call with max_depth = 2 on a scrambled cube has returned None after
\* exactly one poll
CancelledBeforeStartWitness ==
    /\ pc = "done"
    /\ pred = "always"
    /\ ~is_solved(state)
    /\ max_depth = 2
    /\ ret = "none"
    /\ polls = 1

\* C10 (cancellation mid-search): for an unsolved start state, if any poll of
\* should_cancel made during the call answered true, the call returns None,
\* whatever the other polls answered.
CancelMeansNone ==
    (pc = "done" /\ any_true /\ ~is_solved(state)) => ret = "none"

\* the worker's run is over and the window has handled every signal of it
Delivered == solve_worker = "finished" /\ inbox = <<>>

\* what the caller holds after a search that went through every depth up to
\* max_depth without a solution and without a positive poll: the signal run()
\* emits for the None of line 113 and the status text the window shows for it
ExhaustedOutcome ==
    <<run_signal(FALSE, NoSolution), on_solve_finished_status(NoSolution)>>

\* C11 (cancellation is distinguishable): once the result of a search that
\* ended because a poll of should_cancel answered true has been delivered, the
\* result value together with the reported status differs from what a search
\* that exhausted max_depth without a solution delivers.
CancelDistinguishable ==
    (Delivered /\ any_true /\ emitted # <<>>) =>
        <<emitted[1], solve_status>> # ExhaustedOutcome

\* a search that went through its depths without a positive poll and found
\* nothing has delivered the outcome above
ExhaustedDelivers ==
    (Delivered /\ ~any_true /\ ~interruption_requested /\ pc = "done" /\ ret = "none") =>
        <<emitted[1], solve_status>> = ExhaustedOutcome

\* iddfs_solve without callbacks, as a function of the start state: the loop
\* of _dfs from position idx of MOVES on, and the depth loop from limit on
RECURSIVE dfs_alone(_, _, _, _, _, _)
dfs_alone(st, remaining, p, seen, last, idx) ==
    IF is_solved(st) THEN Solution(p)
    ELSE IF remaining = 0 \/ idx > Len(MOVES) THEN NoSolution
    ELSE LET mv == MOVES[idx]
             child == child_of(st, mv)
             h == hash(child)
             ans == IF pruned(last, mv) \/ h \in seen THEN NoSolution
                    ELSE dfs_alone(child, remaining - 1, path_append(p, mv),
                                   seen \cup {h}, mv, 1)
         IN  IF ~ans.is_none THEN ans
             ELSE dfs_alone(st, remaining, p, seen, last, idx + 1)

RECURSIVE iddfs_alone(_, _, _)
iddfs_alone(st, limit, md) ==
    IF limit > md THEN NoSolution
    ELSE LET res == dfs_alone(st, limit, <<>>, {hash(st)}, None, 1)
         IN  IF ~res.is_none THEN res ELSE iddfs_alone(st, limit + 1, md)

\* the result of iddfs_solve(st, md) when nothing else runs
solve_alone(st, md) ==
    IF is_solved(st) THEN Solution(<<>>) ELSE iddfs_alone(copy_model(st), 1, md)

\* C12 (isolation of the search from the live cube): the worker holds a copy
\* of the cube taken when it was constructed; whatever moves and resets of the
\* live cube are interleaved with the search, the live cube shows exactly the
\* operations made on it (the search never writes it), the model passed to
\* iddfs_solve keeps the state it was passed with, and the result of a search
\* in which no poll answered true is the result of solving the copy alone.
SearchIsolated ==
    /\ to_hashable(state) = to_hashable(after(solved_state, applied))
    /\ solve_worker # "none" => to_hashable(worker_model) = to_hashable(snapshot)
    /\ (emitted # <<>> /\ pc = "done" /\ ~any_true) =>
            emitted[1] = run_signal(FALSE, solve_alone(snapshot, worker_max_depth))

\* a two-move solution of the copy has been emitted although the live cube
\* was moved after the worker had been built
SearchIsolatedWitness ==
    /\ emitted # <<>>
    /\ pc = "done"
    /\ ~any_true
    /\ ~emitted[1].arg.is_none
    /\ Len(emitted[1].arg.sol) = 2
    /\ n_moves > 0
    /\ to_hashable(state) # to_hashable(snapshot)
    /\ is_solved(after(snapshot, emitted[1].arg.sol))

\* C13 (atomic rejection of invalid move text): a call on the cube that
\* reports an error (apply_sequence given a text with an invalid token at any
\* position, apply_move given an invalid token) leaves the cube state exactly
\* as it was before the call.
AtomicRejection ==
    [][raised' => to_hashable(state') = to_hashable(state)]_vars

\* C14 (worker error boundary): a worker emits no terminal signal before its
\* run ends and exactly one when it ends: error when the search raised,
\* finished_solution carrying the returned list or None when it returned;
\* so a failure never shows as a result and a not-found result never as an error.
WorkerBoundary ==
    /\ solve_worker # "finished" => emitted = <<>>
    /\ solve_worker = "finished" =>
          /\ Len(emitted) = 1
          /\ pc \in {"done", "raised"}
          /\ pc = "raised" => emitted[1].sig = "error"
          /\ pc = "done" =>
                /\ emitted[1].sig = "finished_solution"
                /\ emitted[1].arg.is_none = (ret = "none")
                /\ ret = "list" => emitted[1].arg.sol = solution

\* a search that raised inside a _dfs call of its second depth has ended with
\* the error signal, which the window has handled
WorkerBoundaryWitness ==
    /\ Delivered
    /\ pc = "raised"
    /\ depth_log = <<1, 2>>
    /\ n_applied > 0
    /\ emitted = <<Signal("error", NoSolution)>>
    /\ solve_status = "Error en la busqueda (revisa consola)."

dot(a, b) == a[1] * b[1] + a[2] * b[2] + a[3] * b[3]

cross(a, b) ==
    <<a[2] * b[3] - a[3] * b[2], a[3] * b[1] - a[1] * b[3], a[1] * b[2] - a[2] * b[1]>>

\* v turned by -90 degrees about the unit vector n by the right-hand rule
\* (Rodrigues' formula with cos = 0, sin = -1): clockwise for an observer who
\* looks at the cube from the tip of n
clockwise(n, v) ==
    LET k == dot(n, v)
        c == cross(n, v)
    IN  <<n[1] * k - c[1], n[2] * k - c[2], n[3] * k - c[3]>>

\* C15 (clockwise convention): for each of the six face letters X and every
\* reachable state, apply_move("X") carries the color of every facelet of X's
\* outer layer to the facelet whose position and normal are its own turned
\* clockwise about X's outward normal, and leaves every other facelet as it was.
ClockwiseConvention ==
    \A X \in FaceSet :
        LET n == FACE_NORMAL[X]
            st2 == after(state, << <<X>> >>)
        IN  \A key \in Facelets :
                LET pos == facelet_to_pn[key][1]
                    nrm == facelet_to_pn[key][2]
                    dest == pn_to_facelet[<<clockwise(n, pos), clockwise(n, nrm)>>]
                IN  IF dot(n, pos) = 1
                    THEN st2[dest[1]][dest[2]] = state[key[1]][key[2]]
                    ELSE st2[key[1]][key[2]] = state[key[1]][key[2]]

\* tok is spelled with the characters of the grammar only: no blank, no
\* typographic apostrophe, and not the suffix 2' that normalize collapses
plain(tok) ==
    /\ tok # <<>>
    /\ \A k \in 1..Len(tok) : tok[k] \notin {" ", "rsquo", "lsquo"}
    /\ Tail(tok) # <<"2", "'">>

\* C16 (alphabet of normalize): normalize_token returns unchanged every token
\* made of a base letter among U, D, L, R, F, B, E, M, S and a suffix among
\* none, ' and 2, and raises for every plainly spelled token whose base letter
\* or suffix is outside these sets.
NormalizeAlphabet ==
    call.fn = "normalize_token" =>
        /\ call.arg \in Tokens => (~call.raised /\ call.out = call.arg)
        /\ (plain(call.arg) /\ call.arg \notin Tokens) => call.raised

\* C17 (apply_move follows the move notation): in every reachable state and
\* for every raw token, apply_move raises exactly when normalize_token raises,
\* and when neither does, applying the raw token gives the snapshot of applying
\* its normalized form; so a token with a typographic apostrophe acts as the
\* reverse quarter turn and a token with suffix 2' as the half turn.
MoveNotationAgreement ==
    \A t \in RawTokens :
        LET n == normalize_token(t)
            m == apply_move(state, t)
        IN  /\ m.raised = n.raised
            /\ ~n.raised =>
                  to_hashable(m.state) = to_hashable(apply_move(state, n.tok).state)

\* the positions of text where a maximal run of non-blank characters starts
RunStarts(text) ==
    {i \in 1..Len(text) : text[i] # " " /\ (i = 1 \/ text[i - 1] = " ")}

\* the k-th maximal run of non-blank characters of text
Run(text, k) ==
    LET S == RunStarts(text)
        i == CHOOSE i \in S : Cardinality({x \in S : x < i}) = k - 1
        j == CHOOSE j \in i..Len(text) :
                /\ \A x \in i..j : text[x] # " "
                /\ j = Len(text) \/ text[j + 1] = " "
    IN  SubSeq(text, i, j)

\* C18 (parse_sequence): the call raises exactly when normalize_token raises
\* for one of the blank-separated tokens of the text, and then returns no
\* list; otherwise it returns one normalized token for each token of the
\* text, in the order of the text.  "R U2 F'" gives ["R", "U2", "F'"] and "Q"
\* raises.
ParseSequenceOrder ==
    call.fn = "parse_sequence" =>
        LET text == call.arg
            n == Cardinality(RunStarts(text))
        IN  /\ call.raised = (\E k \in 1..n : normalize_token(Run(text, k)).raised)
            /\ call.raised => call.out = <<>>
            /\ ~call.raised =>
                  /\ Len(call.out) = n
                  /\ \A k \in 1..n : call.out[k] = normalize_token(Run(text, k)).tok
            /\ text = <<"R", " ", "U", "2", " ", "F", "'">> =>
                  (~call.raised /\ call.out = << <<"R">>, <<"U", "2">>, <<"F", "'">> >>)
            /\ text = <<"Q">> => call.raised

\* a text with doubled blanks, a typographic apostrophe and the suffix 2' has
\* been parsed into its three normalized tokens
ParseSequenceOrderWitness ==
    /\ call.fn = "parse_sequence"
    /\ call.arg = <<" ", "R", " ", " ", "U", "rsquo", " ", "D", "2", "'", " ">>
    /\ ~call.raised
    /\ call.out = << <<"R">>, <<"U", "'">>, <<"D", "2">> >>

\* tok between its first and its last non-blank character, every typographic
\* apostrophe written as the canonical one (<<>> when tok is all blanks)
canonical_spelling(tok) ==
    LET N == {k \in 1..Len(tok) : tok[k] # " "}
    IN  IF N = {} THEN <<>>
        ELSE LET i == CHOOSE k \in N : \A x \in N : k <= x
                 j == CHOOSE k \in N : \A x \in N : x <= k
             IN  [k \in 1..(j - i + 1) |->
                     IF tok[i + k - 1] \in {"rsquo", "lsquo"} THEN "'"
                     ELSE tok[i + k - 1]]

\* C19 (what normalize does): a token that, trimmed and with canonical
\* apostrophes, is a face letter with suffix none, ', 2 or 2' is accepted; the
\* result of an accepted token is that spelling with the suffix 2' collapsed
\* to 2, so its suffix is none, ' or 2; and normalizing the result again
\* returns it unchanged.
NormalizeCanonical ==
    call.fn = "normalize_token" =>
        LET c == canonical_spelling(call.arg)
        IN  /\ (c # <<>> /\ c[1] \in VALID_FACES
                  /\ Tail(c) \in {<<>>, <<"'">>, <<"2">>, <<"2", "'">>}) => ~call.raised
            /\ ~call.raised =>
                  /\ call.out = IF c # <<>> /\ Tail(c) = <<"2", "'">>
                                THEN <<c[1], "2">> ELSE c
                  /\ call.out # <<>> => Tail(call.out) \in {<<>>, <<"'">>, <<"2">>}
                  /\ normalize_token(call.out) = [raised |-> FALSE, tok |-> call.out]

\* a token between blanks, with a typographic apostrophe after the 2, has
\* been normalized to the half turn
NormalizeCanonicalWitness ==
    /\ call.fn = "normalize_token"
    /\ call.arg = <<" ", "R", "2", "rsquo", " ", " ">>
    /\ ~call.raised
    /\ call.out = <<"R", "2">>

\* the token with the same base letter and the opposite suffix
opposite(m) ==
    IF Tail(m) = <<>> THEN <<m[1], "'">>
    ELSE IF Tail(m) = <<"'">> THEN <<m[1]>>
    ELSE m

\* C20 (inverse): for every base letter X among the nine, inverse_move maps X
\* to X', X' to X and X2 to X2, and the inverse of the result is the token
\* itself; and for each of the 18 face tokens the solver's table INV holds the
\* token that inverse_move returns.
InverseInvolution ==
    /\ (call.fn = "inverse_move" /\ call.arg \in Tokens) =>
          /\ ~call.raised
          /\ call.out = opposite(call.arg)
          /\ inverse_move(call.out) = [raised |-> FALSE, tok |-> call.arg]
    /\ \A k \in 1..Len(MOVES) :
          inverse_move(MOVES[k]) = [raised |-> FALSE, tok |-> INV_get(MOVES[k])]

\* every face of st shows one color on its nine facelets
uniform_faces(st) == \A f \in FaceSet : \A i \in 0..8 : st[f][i] = st[f][0]

ScrambleShape ==
    scr.made =>
        LET toks == split(scr.text)
        IN  /\ scr.n <= 0 => (scr.raised /\ scr.text = <<>>)
            /\ scr.n >= 1 =>
                  /\ ~scr.raised
                  /\ Len(toks) = scr.n
                  /\ \A k \in 1..Len(toks) :
                        /\ toks[k][1] \in {"U", "D", "L", "R", "F", "B"}
                        /\ Tail(toks[k]) \in {<<>>, <<"'">>, <<"2">>}
                  /\ \A k \in 1..(Len(toks) - 1) : toks[k][1] # toks[k + 1][1]

\* a call with n = 2 has returned "B2 U'"
ScrambleShapeWitness ==
    /\ scr.made
    /\ scr.n = 2
    /\ ~scr.raised
    /\ scr.text = <<"B", "2", " ", "U", "'">>

\* C23 (scramble reproducibility): a call of generate_scramble with an
\* integer seed returns the text that the first call with the same n and the
\* same seed returned, whatever calls were made in between.
ScrambleReproducible ==
    scr.repeated => scr.text = scr_seen[scr.n, scr.seed.value].text

\* generate_scramble(2, seed=42) has been called again and has returned the
\* two moves it returned the first time
ScrambleReproducibleWitness ==
    /\ scr.repeated
    /\ scr.n = 2
    /\ scr.seed = Seed(42)
    /\ Len(split(scr.text)) = 2
    /\ scr.text = scr_seen[2, 42].text

\* iddfs_solve has returned None from the top of the iteration with depth
\* limit depth_limit (line 94): the None of line 113 comes after the last
\* iteration, and a None of _dfs does not end the call
CancelledAtIteration == pc = "done" /\ ret = "none" /\ depth_limit <= max_depth

\* C24 as claimed (on_depth before the poll): when the poll at the top of
\* the iteration with depth limit d answered true and iddfs_solve returned
\* None, on_depth had been called for d, so that its calls are 1, ..., d.
DepthBeforePoll ==
    CancelledAtIteration => depth_log = [k \in 1..depth_limit |-> k]

\* C24 as amended (the poll before on_depth): in the iteration with depth
\* limit d should_cancel is polled first; if the poll answers true
\* iddfs_solve returns None and on_depth is not called for d, so that its
\* calls are 1, ..., d - 1; otherwise on_depth(d) is called before the search
\* of depth d starts.  A return of None from the top of an iteration happens
\* only after a poll that answered true.
PollBeforeDepth ==
    /\ CancelledAtIteration =>
          (any_true /\ depth_log = [k \in 1..(depth_limit - 1) |-> k])
    /\ pc = "iter" => depth_log = [k \in 1..(depth_limit - 1) |-> k]
    /\ pc \in {"call", "loop"} => depth_log = [k \in 1..depth_limit |-> k]

\* the search of depth 1 ran, the poll at the top of the iteration with depth
\* limit 2 answered true, and on_depth was called with 1 only
PollBeforeDepthWitness ==
    /\ CancelledAtIteration
    /\ depth_limit = 2
    /\ max_depth = 2
    /\ depth_log = <<1>>
    /\ n_applied > 0

(* ------------------------------------------------------------------ *)
(* History, undo and redo                                               *)
(* ------------------------------------------------------------------ *)

\* C25 (history consistency): whenever the GL widget is idle, replaying the
\* window's history on a solved cube yields the live cube.
HistoryConsistent ==
    is_gl_idle(Win) => to_hashable(after(solved_state, history)) = to_hashable(state)

(* ------------------------------------------------------------------ *)
(* The result of a search in the window                                 *)
(* ------------------------------------------------------------------ *)

\* finished_solution is delivered to _on_solve_finished in this step
ResultDelivered ==
    /\ inbox # <<>>
    /\ Head(inbox).sig = "finished_solution"
    /\ inbox' = Tail(inbox)

\* cancel_solve_search has run since the search was started: it alone
\* disables btn_cancel_solve before the result of the search is delivered
SearchCancelled == ~btn_cancel_solve

\* C26 (no stale result after cancellation): a result delivered after
\* cancel_solve_search was called is not stored as the pending solution and
\* starts no animation of it.
StaleResultDropped ==
    [][(SearchCancelled /\ ResultDelivered) =>
           /\ pending_solution'.is_none
           /\ animating' = animating
           /\ move_queue' = move_queue]_vars

\* on_apply_solution starts to play the pending solution in this step
ApplyStarts ==
    /\ solve_status # "Aplicando solucion..."
    /\ solve_status' = "Aplicando solucion..."

\* C27 (pending solution validity): whenever the window starts applying its
\* pending solution, that sequence applied to the live cube yields a solved
\* cube.
PendingSolves ==
    [][ApplyStarts => is_solved(after(state, pending_solution'.sol))]_vars

(* ------------------------------------------------------------------ *)
(* Cancellation, pruning and progress inside the search                 *)
(* ------------------------------------------------------------------ *)

\* C28 (immediate abort): once a poll of should_cancel has answered true, and
\* the predicate stays true, the search applies no further move to a cube
\* copy and calls on_depth no more.
ImmediateAbort ==
    [][(any_true /\ pred \in {"always", "sticky"}) =>
           /\ n_applied' = n_applied
           /\ depth_log' = depth_log]_vars

\* no two consecutive moves of p turn the same face, and none is the exact
\* inverse of the move before it
no_redundant_pair(p) ==
    \A k \in 1..(Len(p) - 1) :
        /\ p[k + 1][1] # p[k][1]
        /\ p[k + 1] # INV_get(p[k])

\* C29 (pruning): every path the search expands, and so every solution it
\* returns, holds no two consecutive moves of the same base face and no move
\* followed by its exact inverse.
Pruning ==
    /\ no_redundant_pair(path)
    /\ ret = "list" => no_redundant_pair(solution)

\* a path of two moves is being expanded, or a solution of two moves or
\* more has been returned
PruningWitness ==
    \/ pc = "call" /\ Len(path) >= 2 /\ ret = "pending"
    \/ ret = "list" /\ Len(solution) >= 2

\* the iterations of `for depth_limit in range(1, max_depth + 1)` whose body
\* has been entered: the None of line 113 comes once depth_limit has passed
\* max_depth, every other return comes from inside the iteration depth_limit
iterations_entered ==
    IF pc = "idle" THEN 0
    ELSE IF pc = "iter" THEN depth_limit - 1
    ELSE IF pc = "done" /\ ret = "none" /\ depth_limit > max_depth THEN depth_limit - 1
    ELSE depth_limit

\* the iterations whose poll at the top did not end the call, so that their
\* search was started
iterations_searched ==
    IF pc = "done" /\ ret = "none" THEN depth_limit - 1 ELSE iterations_entered

\* C30 as claimed (one on_depth call for each iteration entered): on_depth
\* has been called once for each depth iteration begun, with 1, 2, ..., k.
NotifiedEveryIteration ==
    depth_log = [k \in 1..iterations_entered |-> k]

\* C30 as amended (progress notifications): on_depth has been called exactly
\* once for each depth iteration whose poll at the top did not cancel the call,
\* with the values 1, 2, ..., k in this order and k <= max_depth; it is not
\* called for a start state that is solved nor when max_depth <= 0.
ProgressNotifications ==
    /\ depth_log = [k \in 1..iterations_searched |-> k]
    /\ Len(depth_log) <= (IF max_depth > 0 THEN max_depth ELSE 0)
    /\ (pc # "idle" /\ (is_solved(state) \/ max_depth <= 0)) => depth_log = <<>>

\* a search that went through the depths 1 and 2 and returned a solution
\* has notified 1, 2
ProgressNotificationsWitness ==
    /\ pc = "done"
    /\ ret = "list"
    /\ max_depth = 2
    /\ depth_log = <<1, 2>>

(* ------------------------------------------------------------------ *)
(* The visited set and the path of the search                           *)
(* ------------------------------------------------------------------ *)

\* the snapshots of start and of the states after each prefix of p
path_snapshots(p) ==
    { hash(after(start, SubSeq(p, 1, k))) : k \in 0..Len(p) }

\* C31 (cycle avoidance is per path): at the entry of every _dfs call the
\* visited set is exactly the set of snapshots of the start state and of the
\* states after each prefix of the current path, and these are pairwise
\* distinct.
VisitedIsPath ==
    pc = "call" =>
        /\ seen_on_path = path_snapshots(path)
        /\ Cardinality(seen_on_path) = Len(path) + 1

\* the position of m in MOVES
move_index(m) == CHOOSE k \in 1..Len(MOVES) : MOVES[k] = m

\* a _dfs call is entered on a state that an abandoned branch of the same
\* iteration had visited: the two moves of the path in the other order, tried
\* before, lead to the same state
VisitedIsPathWitness ==
    /\ pc = "call"
    /\ Len(path) = 2
    /\ path[1][1] # path[2][1]
    /\ move_index(path[2]) < move_index(path[1])
    /\ hash(after(start, <<path[2], path[1]>>)) = hash(after(start, path))
    /\ hash(after(start, path)) \in seen_on_path

(* ------------------------------------------------------------------ *)
(* Backtracking                                                         *)
(* ------------------------------------------------------------------ *)

\* the path with which the innermost running _dfs call was entered: the
\* moves its callers appended, one for each call below the outermost
entry_path == [k \in 1..(Len(stack) - 1) |-> stack[k + 1].last_move]

\* the set with which the innermost running _dfs call was entered: the
\* snapshots of the states of the running calls, start being the outermost
entry_seen == { hash(stack[k].model) : k \in 1..Len(stack) }

\* a running _dfs call that is not inside a recursive call has path and the
\* set as they were when it was entered, and so has them when it returns None
RolledBackOnNone ==
    /\ pc \in {"call", "loop"} =>
           /\ path = entry_path
           /\ seen_on_path = entry_seen
    /\ ((pc = "iter" \/ (pc = "done" /\ ret = "none")) /\ depth_limit > 1) =>
           /\ path = <<>>
           /\ seen_on_path = {hash(start)}

\* C32 as claimed (symmetric rollback): on return from every _dfs call,
\* whatever it returns, path and the visited set are as they were when the
\* call was entered; the outermost call, entered with the empty path and the
\* set holding the start state alone, has returned when iddfs_solve is done.
SymmetricRollback ==
    /\ RolledBackOnNone
    /\ (pc = "done" /\ ret = "list" /\ solution # <<>>) =>
           /\ path = <<>>
           /\ seen_on_path = {hash(start)}

\* C32 as amended (rollback on failure): on return of None from every _dfs
\* call path and the visited set are as they were when the call was entered;
\* when a call returns a list found below it, path still holds that list and
\* the set the snapshots of the states along it.
RollbackOnFailure ==
    /\ RolledBackOnNone
    /\ (pc = "done" /\ ret = "list" /\ solution # <<>>) =>
           /\ path = solution
           /\ seen_on_path = path_snapshots(solution)

\* in the iteration of depth 2 the recursive call for the first move has
\* returned None after trying moves of its own, and the outermost call goes
\* on with the path and the set it was entered with
RollbackOnFailureWitness ==
    /\ pc = "loop"
    /\ depth_limit = 2
    /\ Len(stack) = 1
    /\ Top.idx = 2
    /\ n_applied = CountCap
    /\ path = <<>>
    /\ seen_on_path = {hash(start)}

(* ------------------------------------------------------------------ *)
(* A base move permutes its layer                                       *)
(* ------------------------------------------------------------------ *)

BaseLetters == {"U", "D", "L", "R", "F", "B", "M", "E", "S"}

\* the axis and the layer value of each letter: the face letters turn an
\* outer layer, the slice letters the middle layer of x, y, z
move_layer ==
    [U |-> <<"y", 1>>, D |-> <<"y", -1>>, R |-> <<"x", 1>>, L |-> <<"x", -1>>,
     F |-> <<"z", 1>>, B |-> <<"z", -1>>, M |-> <<"x", 0>>, E |-> <<"y", 0>>,
     S |-> <<"z", 0>>]

\* the facelets whose coordinate along axis is layer_value
layer_facelets(axis, layer_value) ==
    LET c == IF axis = "x" THEN 1 ELSE IF axis = "y" THEN 2 ELSE 3
    IN  {key \in Facelets : facelet_to_pn[key][1][c] = layer_value}

\* the quarter turns of letter X, reduced as _rotate_layer does
layer_turns(X) == base_rotation(X)[3] % 4

\* for every letter the rotated (position, normal) of every facelet of its
\* layer is a key of the inverse table, and the destinations of the facelets
\* of the layer are pairwise distinct facelets of the layer and cover it
layer_bijective ==
    \A X \in BaseLetters :
        LET a == move_layer[X][1]
            L == layer_facelets(a, move_layer[X][2])
            t == layer_turns(X)
        IN  /\ \A key \in L : layer_rotated(a, t, key) \in DOMAIN pn_to_facelet
            /\ \A k1, k2 \in L :
                   layer_dest(a, t, k1) = layer_dest(a, t, k2) => k1 = k2
            /\ {layer_dest(a, t, key) : key \in L} = L

\* for letter X and slot d, the slot whose color d receives: the one facelet
\* of the layer whose destination is d, and d itself outside the layer
layer_origin ==
    [X \in BaseLetters |->
        [d \in Facelets |->
            LET a == move_layer[X][1]
                L == layer_facelets(a, move_layer[X][2])
            IN  IF d \in L
                THEN CHOOSE key \in L : layer_dest(a, layer_turns(X), key) = d
                ELSE d] @@ <<>>] @@ <<>>

\* C33 (a base move is a permutation confined to its layer): for every letter
\* X, applied to the current state, every facelet outside the layer of X
\* keeps its color and every slot of the layer receives the color of exactly
\* one source slot of the layer, distinct slots from distinct sources; no
\* destination lookup fails.
LayerPermutation ==
    /\ layer_bijective
    /\ \A X \in BaseLetters :
           apply_base_move_cw(state, X) =
               [f \in FaceSet |-> [i \in 0..8 |->
                    state[layer_origin[X][<<f, i>>][1]][layer_origin[X][<<f, i>>][2]]]]

\* the slice move M has been applied to the solved cube: the middle layer of
\* x shows the colors of its sources and the faces L and R are untouched
LayerPermutationWitness ==
    /\ applied = <<<<"M">>>>
    /\ ~raised
    /\ state # solved_state
    /\ state["L"] = solved_state["L"]
    /\ state["R"] = solved_state["R"]
    /\ state["U"][1] # solved_state["U"][1]
    /\ state["U"][0] = solved_state["U"][0]

(* ------------------------------------------------------------------ *)
(* The cube and its animation                                           *)
(* ------------------------------------------------------------------ *)

\* C34 (model and animation agree): whenever an animation finishes and its
\* move is applied to the cube, the cube ends in the state that the last
\* frame of the animation showed, the layer of the move rotated by the signed
\* angle of the move about its axis with the right-hand rule.
AnimationAgrees ==
    [][(FinishAnimation /\ ~raised') => state' = last_frame_state(state, anim_move)]_vars

(* ------------------------------------------------------------------ *)
(* The rotation helpers                                                 *)
(* ------------------------------------------------------------------ *)

\* one positive quarter turn by the right-hand rule: about +X it sends +Y to
\* +Z, about +Y it sends +Z to +X, about +Z it sends +X to +Y
right_hand_quarter(fn, v) ==
    CASE fn = "_rot_x" -> <<v[1], -v[3], v[2]>>
      [] fn = "_rot_y" -> <<v[3], v[2], -v[1]>>
      [] fn = "_rot_z" -> <<-v[2], v[1], v[3]>>

\* k positive quarter turns by the right-hand rule
RECURSIVE right_hand(_, _, _)
right_hand(fn, v, k) ==
    IF k = 0 THEN v ELSE right_hand(fn, right_hand_quarter(fn, v), k - 1)

\* C37 (right-hand rule): every call of _rot_x, _rot_y, _rot_z with a vector
\* of coordinates in {-1, 0, 1} and an integer turns returns the vector
\* rotated by turns mod 4 positive quarter turns about +X, +Y, +Z by the
\* right-hand rule.
RightHandRule ==
    call.fn \in {"_rot_x", "_rot_y", "_rot_z"} =>
        call.out = right_hand(call.fn, call.arg[1], call.arg[2] % 4)

(* ------------------------------------------------------------------ *)
(* The animation queue                                                  *)
(* ------------------------------------------------------------------ *)

\* the widget neither animates nor has moves queued
gl_idle == ~animating /\ move_queue = <<>>

\* under fair timer ticks a window that is busy (a mode other than normal,
\* an animation running or moves queued) eventually has an idle widget,
\* enabled controls and mode normal
DrainsEventually ==
    (mode # "normal" \/ ~gl_idle) ~> (gl_idle /\ controls /\ mode = "normal")

\* C35 (the animation queue drains), the part of it a finite run refutes: the
\* widget is never left with a non-empty queue while no animation runs, and
\* whenever a handler has left the widget idle the window has its controls
\* enabled and is in mode normal.
QueueDrains ==
    /\ ~animating => move_queue = <<>>
    /\ gl_idle => (controls /\ mode = "normal")

(* ------------------------------------------------------------------ *)
(* The centres                                                          *)
(* ------------------------------------------------------------------ *)

FaceLetters == {"U", "D", "L", "R", "F", "B"}

\* the centre facelets of a state
centres(st) == [f \in FaceSet |-> st[f][4]]

\* C36 (face moves fix the centres): a cube that only moves on the six face
\* letters were applied to has the centres of the solved cube; every state
\* the search visits, reached from start by moves of MOVES, has the centres
\* of start; and a search on a cube with a centre that differs from its
\* face's solved color returns None, whatever max_depth is.
CentresFixed ==
    /\ (\A k \in 1..Len(applied) : applied[k][1] \in FaceLetters) =>
           centres(state) = centres(solved_state)
    /\ \A k \in 1..Len(stack) : centres(stack[k].model) = centres(start)
    /\ (pc = "done" /\ centres(state) # centres(solved_state)) => ret = "none"

\* the search on the cube after M, with the largest max_depth and never
\* cancelled, has gone through every depth and returned None
CentresFixedWitness ==
    /\ pc = "done"
    /\ applied = << <<"M">> >>
    /\ centres(state) # centres(solved_state)
    /\ pred = "none"
    /\ max_depth = MaxDepth
    /\ depth_log = [k \in 1..MaxDepth |-> k]
    /\ ret = "none"

(* ------------------------------------------------------------------ *)
(* The facelet tables                                                   *)
(* ------------------------------------------------------------------ *)

\* C38 (the facelet geometry is a bijection): the table built at
\* construction gives the 54 (face, index) pairs 54 pairwise distinct
\* (position, normal) pairs, the position with coordinates in {-1, 0, 1} on
\* the side of its face, the normal the outward unit normal of the face; the
\* inverse table has these 54 pairs as keys and maps each back to its
\* (face, index).  Moves, reset and the solver read both tables, which have
\* no other writer than _build_facelet_maps, and the keys stay the slots of
\* the state of the cube.
FaceletBijection ==
    /\ Cardinality(DOMAIN facelet_to_pn) = 54
    /\ DOMAIN facelet_to_pn = {<<f, i>> : f \in DOMAIN state, i \in 0..8}
    /\ \A f \in DOMAIN state : DOMAIN state[f] = 0..8
    /\ \A k1, k2 \in DOMAIN facelet_to_pn :
           facelet_to_pn[k1] = facelet_to_pn[k2] => k1 = k2
    /\ \A key \in DOMAIN facelet_to_pn :
           LET pos == facelet_to_pn[key][1]
               n   == facelet_to_pn[key][2]
           IN  /\ pos \in Vectors
               /\ n = FACE_NORMAL[key[1]]
               /\ dot(n, n) = 1
               /\ dot(pos, n) = 1
    /\ Cardinality(DOMAIN pn_to_facelet) = 54
    /\ DOMAIN pn_to_facelet = {facelet_to_pn[key] : key \in DOMAIN facelet_to_pn}
    /\ \A key \in DOMAIN facelet_to_pn : pn_to_facelet[facelet_to_pn[key]] = key

\* the slice move S has read both tables: the corner facelet (B, 0), whose
\* position is mirrored on its face, is still found through the inverse table
FaceletBijectionWitness ==
    /\ applied = << <<"S">> >>
    /\ state # solved_state
    /\ facelet_to_pn[<<"B", 0>>] = << <<1, 1, -1>>, <<0, 0, -1>> >>
    /\ pn_to_facelet[<< <<1, 1, -1>>, <<0, 0, -1>> >>] = <<"B", 0>>

====
